---- MODULE Spec2Model ----
(***************************************************************************)
(* Model of the brazilian-ecommerce data service: the resource services    *)
(* (services.rs) over the Postgres repositories (repositories.rs), the     *)
(* storage-error translation (error.rs) and the CSV bulk loader            *)
(* (handlers.rs).                                                          *)
(***************************************************************************)
EXTENDS Integers, Sequences, FiniteSets, TLC

VARIABLES
    db,             \* the relational store: one table per resource, keyed by identifier
    last,           \* the service call that has just returned (or NoCall)
    nops,           \* number of service calls made so far
    pc,             \* position of load_csv_data
    can_open,       \* whether csv::Reader::from_path succeeds on the source
    src_len,        \* number of records in the source
    pos,            \* number of records the reader has yielded
    cur,            \* the record handed to process_fn
    success_count,  \* handlers.rs:248
    error_count,    \* handlers.rs:249
    ret,            \* the value load_csv_data returned
    tags,           \* per record, what happened to it: "parse_error", "ok" or "err"
    dispatched,     \* the record numbers process_fn was called with, in call order
    inflight,       \* calls of process_fn that have not returned yet
    disp,           \* the dispatch that has just returned (or NoCall)
    db0             \* the store as it was when the ingestion run started

vars == <<db, last, nops, pc, can_open, src_len, pos, cur, success_count,
          error_count, ret, tags, dispatched, inflight, disp, db0>>

ingestVars == <<pc, can_open, src_len, pos, cur, success_count, error_count,
                ret, tags, dispatched, inflight, disp, db0>>

-----------------------------------------------------------------------------
(* Bounds *)

MaxId == 2
MaxOps == 3
MaxRecords == 4

Ids == 1..MaxId

\* Bad is a field value the validation rules reject; Absent is a None field.
Bad == "bad"
Absent == "absent"

-----------------------------------------------------------------------------
(* Option, Result and error values *)

None == [some |-> FALSE]
Some(v) == [some |-> TRUE, val |-> v]

Ok(v) == [kind |-> "Ok", value |-> v]
Unit == "unit"

NoCall == [op |-> "none"]

\* sqlx::Error values the storage can produce
UniqueViolation == [variant |-> "Database", code |-> "23505"]
ForeignKeyViolation == [variant |-> "Database", code |-> "23503"]
PoolTimedOut == [variant |-> "PoolTimedOut", code |-> "none"]

NoFault == [variant |-> "NoFault", code |-> "none"]

\* What the storage call of one operation runs into, apart from a key conflict
Faults == {NoFault, ForeignKeyViolation, PoolTimedOut}
IoFaults == {NoFault, PoolTimedOut}

\* AppError (error.rs:11-20)
NotFound == [kind |-> "NotFound"]
NoChangesToUpdate == [kind |-> "NoChangesToUpdate"]
ValidationError == [kind |-> "ValidationError"]
AlreadyExists(msg) == [kind |-> "AlreadyExists", msg |-> msg]
DatabaseError(e) == [kind |-> "DatabaseError", err |-> e]
ConfigError(msg) == [kind |-> "ConfigError", msg |-> msg]

\* impl From<sqlx::Error> for AppError (the `?` on a repository result)
FromSqlx(e) == DatabaseError(e)

\* format!("{} already exists", resource_name)
AlreadyExistsMsg(resource_name) == <<resource_name, " already exists">>

\* map_db_error that compares with the foreign-key code instead.
map_db_error_wrong_code(e, resource_name) ==
    IF e.variant = "Database" /\ e.code = "23503"
    THEN AlreadyExists(AlreadyExistsMsg(resource_name))
    ELSE DatabaseError(e)

\* map_db_error that never recognises the unique-violation code.
map_db_error_always_database(e, resource_name) == DatabaseError(e)

\* error.rs:78-85
map_db_error(e, resource_name) ==
    IF e.variant = "Database" /\ e.code = "23505"
    THEN AlreadyExists(AlreadyExistsMsg(resource_name))
    ELSE DatabaseError(e)

-----------------------------------------------------------------------------
(* DTOs and validation *)

\* dto.validate(): the field rules reject the value Bad; an absent optional
\* field is not examined.
KeyFields == {"customer_id", "seller_id", "order_id", "product_id", "order_item_id"}

Validate(dto) == \A f \in DOMAIN dto \ KeyFields : dto[f] # Bad

\* The request bodies the endpoints are called with.  Every field of a
\* created customer gets a value of its own, and an update carries other
\* values, so that a stored field tells where its value came from.
CreateCustomerDtos ==
    [customer_id : Ids, customer_unique_id : {"u1"},
     customer_zip_code_prefix : {"z1"}, customer_city : {"c1"},
     customer_state : {"s1", Bad}]

UpdateCustomerDtos ==
    [customer_unique_id : {"u2", Absent},
     customer_zip_code_prefix : {"z2", Absent},
     customer_city : {"c2", Absent},
     customer_state : {"s2", Absent, Bad}]

\* Request bodies of the create endpoints and records of the customers file.
\* Two bodies for the same identifier differ in one field, so that a stored
\* row tells which of them wrote it.
CreateCustomerDtosAB ==
    [customer_id : Ids, customer_unique_id : {"u1"},
     customer_zip_code_prefix : {"z1"}, customer_city : {"c1", "c3"},
     customer_state : {"s1", Bad}]

CreateSellerDtos ==
    [seller_id : Ids, seller_zip_code_prefix : {"z1"},
     seller_city : {"c1", "c3"}, seller_state : {"s1", Bad}]

\* The five timestamps of an order are bound and returned like
\* order_purchase_timestamp.
CreateOrderDtos ==
    [order_id : Ids, customer_id : {1},
     order_status : {"delivered", "shipped", Bad},
     order_purchase_timestamp : {"t1"}]

\* The seven numeric columns of a product are bound and returned like
\* product_weight_g.
CreateProductDtos ==
    [product_id : Ids, product_category_name : {"toys", "books", Bad},
     product_weight_g : {"w1"}]

AddItemToOrderDtos ==
    [order_item_id : {1}, product_id : {1}, seller_id : {1},
     shipping_limit_date : {"t1"}, price : {"p1", "p2", Bad},
     freight_value : {"f1"}]

is_none(x) == x = Absent

COALESCE(x, old) == IF x = Absent THEN old ELSE x

EmptyTable == [i \in Ids |-> None]

EmptyDb ==
    [customers |-> EmptyTable, sellers |-> EmptyTable, orders |-> EmptyTable,
     products |-> EmptyTable, order_items |-> EmptyTable]

-----------------------------------------------------------------------------
(* PgCustomerRepository: each operator gives the sqlx result and the table  *)
(* after the statement.                                                     *)

RepoOut(res, t) == [res |-> res, table |-> t]
SqlErr(e) == [kind |-> "Err", err |-> e]

\* The primary key of a table rejects a second row with a stored identifier.
InsertRow(t, id, row, fault) ==
    IF fault # NoFault THEN RepoOut(SqlErr(fault), t)
    ELSE IF t[id].some THEN RepoOut(SqlErr(UniqueViolation), t)
    ELSE RepoOut(Ok(row), [t EXCEPT ![id] = Some(row)])

\* An INSERT that writes over a stored row instead of failing on its key.
PgCustomerRepository_create_upsert(t, dto, fault) ==
    IF fault # NoFault THEN RepoOut(SqlErr(fault), t)
    ELSE RepoOut(Ok(dto), [t EXCEPT ![dto.customer_id] = Some(dto)])

PgCustomerRepository_create(t, dto, fault) ==
    InsertRow(t, dto.customer_id, dto, fault)

PgCustomerRepository_find_by_id(t, id, fault) ==
    IF fault # NoFault THEN RepoOut(SqlErr(fault), t)
    ELSE RepoOut(Ok(t[id]), t)

\* The UPDATE without COALESCE: every column is set to the bound parameter.
PgCustomerRepository_update_no_coalesce(t, id, dto, fault) ==
    IF fault # NoFault THEN RepoOut(SqlErr(fault), t)
    ELSE IF ~t[id].some THEN RepoOut(Ok(None), t)
    ELSE LET new == [customer_id |-> t[id].val.customer_id,
                     customer_unique_id |-> dto.customer_unique_id,
                     customer_zip_code_prefix |-> dto.customer_zip_code_prefix,
                     customer_city |-> dto.customer_city,
                     customer_state |-> dto.customer_state]
         IN RepoOut(Ok(Some(new)), [t EXCEPT ![id] = Some(new)])

PgCustomerRepository_update(t, id, dto, fault) ==
    IF fault # NoFault THEN RepoOut(SqlErr(fault), t)
    ELSE IF ~t[id].some THEN RepoOut(Ok(None), t)
    ELSE LET old == t[id].val
             new == [customer_id |-> old.customer_id,
                     customer_unique_id |->
                         COALESCE(dto.customer_unique_id, old.customer_unique_id),
                     customer_zip_code_prefix |->
                         COALESCE(dto.customer_zip_code_prefix,
                                  old.customer_zip_code_prefix),
                     customer_city |->
                         COALESCE(dto.customer_city, old.customer_city),
                     customer_state |->
                         COALESCE(dto.customer_state, old.customer_state)]
         IN RepoOut(Ok(Some(new)), [t EXCEPT ![id] = Some(new)])

PgCustomerRepository_delete(t, id, fault) ==
    IF fault # NoFault THEN RepoOut(SqlErr(fault), t)
    ELSE IF t[id].some THEN RepoOut(Ok(1), [t EXCEPT ![id] = None])
    ELSE RepoOut(Ok(0), t)

-----------------------------------------------------------------------------
(* CustomerService: each operator gives the AppResult, the customers table  *)
(* after the call and the number of repository invocations it made.         *)

SvcOut(result, t, calls) == [result |-> result, table |-> t, calls |-> calls]

create_customer(t, dto, fault) ==
    IF ~Validate(dto) THEN SvcOut(ValidationError, t, 0)
    ELSE LET r == PgCustomerRepository_create(t, dto, fault)
         IN IF r.res.kind = "Ok" THEN SvcOut(r.res, r.table, 1)
            ELSE SvcOut(map_db_error(r.res.err, "Customer"), r.table, 1)

get_customer_by_id(t, id, fault) ==
    LET r == PgCustomerRepository_find_by_id(t, id, fault)
    IN IF r.res.kind # "Ok" THEN SvcOut(FromSqlx(r.res.err), r.table, 1)
       ELSE IF r.res.value.some THEN SvcOut(Ok(r.res.value.val), r.table, 1)
       ELSE SvcOut(NotFound, r.table, 1)

\* update_customer without the early return on a DTO with no field set.
update_customer_no_early_return(t, id, dto, fault) ==
    IF ~Validate(dto) THEN SvcOut(ValidationError, t, 0)
    ELSE LET r == PgCustomerRepository_update(t, id, dto, fault)
         IN IF r.res.kind # "Ok" THEN SvcOut(FromSqlx(r.res.err), r.table, 1)
            ELSE IF r.res.value.some THEN SvcOut(Ok(r.res.value.val), r.table, 1)
            ELSE SvcOut(NotFound, r.table, 1)

update_customer(t, id, dto, fault) ==
    IF ~Validate(dto) THEN SvcOut(ValidationError, t, 0)
    ELSE IF /\ is_none(dto.customer_unique_id)
            /\ is_none(dto.customer_zip_code_prefix)
            /\ is_none(dto.customer_city)
            /\ is_none(dto.customer_state)
    THEN SvcOut(NoChangesToUpdate, t, 0)
    ELSE LET r == PgCustomerRepository_update(t, id, dto, fault)
         IN IF r.res.kind # "Ok" THEN SvcOut(FromSqlx(r.res.err), r.table, 1)
            ELSE IF r.res.value.some THEN SvcOut(Ok(r.res.value.val), r.table, 1)
            ELSE SvcOut(NotFound, r.table, 1)

\* delete_customer that does not look at rows_affected.
delete_customer_ignores_rows(t, id, fault) ==
    LET r == PgCustomerRepository_delete(t, id, fault)
    IN IF r.res.kind # "Ok" THEN SvcOut(FromSqlx(r.res.err), r.table, 1)
       ELSE SvcOut(Ok(Unit), r.table, 1)

delete_customer(t, id, fault) ==
    LET r == PgCustomerRepository_delete(t, id, fault)
    IN IF r.res.kind # "Ok" THEN SvcOut(FromSqlx(r.res.err), r.table, 1)
       ELSE IF r.res.value = 0 THEN SvcOut(NotFound, r.table, 1)
       ELSE SvcOut(Ok(Unit), r.table, 1)

-----------------------------------------------------------------------------
(* Seller, Order and Product repositories and services *)

\* create of sellers as an upsert: a stored row is overwritten.
PgSellerRepository_create_upsert(t, dto, fault) ==
    IF fault # NoFault THEN RepoOut(SqlErr(fault), t)
    ELSE RepoOut(Ok(dto), [t EXCEPT ![dto.seller_id] = Some(dto)])

PgSellerRepository_create(t, dto, fault) ==
    InsertRow(t, dto.seller_id, dto, fault)

PgOrderRepository_create(t, dto, fault) ==
    InsertRow(t, dto.order_id, dto, fault)

PgProductRepository_create(t, dto, fault) ==
    InsertRow(t, dto.product_id, dto, fault)

\* order_items rows are keyed by (order_id, order_item_id); the DTOs carry one
\* order_item_id, which leaves order_id as the key.
PgOrderRepository_add_item(t, order_id, dto, fault) ==
    InsertRow(t, order_id,
              [order_item_id |-> dto.order_item_id, order_id |-> order_id,
               product_id |-> dto.product_id, seller_id |-> dto.seller_id,
               shipping_limit_date |-> dto.shipping_limit_date,
               price |-> dto.price, freight_value |-> dto.freight_value],
              fault)

create_seller(t, dto, fault) ==
    IF ~Validate(dto) THEN SvcOut(ValidationError, t, 0)
    ELSE LET r == PgSellerRepository_create(t, dto, fault)
         IN IF r.res.kind = "Ok" THEN SvcOut(r.res, r.table, 1)
            ELSE SvcOut(map_db_error(r.res.err, "Seller"), r.table, 1)

create_order(t, dto, fault) ==
    IF ~Validate(dto) THEN SvcOut(ValidationError, t, 0)
    ELSE LET r == PgOrderRepository_create(t, dto, fault)
         IN IF r.res.kind = "Ok" THEN SvcOut(r.res, r.table, 1)
            ELSE SvcOut(map_db_error(r.res.err, "Order"), r.table, 1)

\* add_item_to_order that validates after the insert.
add_item_to_order_validates_late(t, order_id, dto, fault) ==
    LET r == PgOrderRepository_add_item(t, order_id, dto, fault)
    IN IF r.res.kind # "Ok" THEN SvcOut(FromSqlx(r.res.err), r.table, 1)
       ELSE IF ~Validate(dto) THEN SvcOut(ValidationError, r.table, 1)
       ELSE SvcOut(r.res, r.table, 1)

\* add_item_to_order that maps the storage error like the create operations.
add_item_to_order_maps_conflict(t, order_id, dto, fault) ==
    IF ~Validate(dto) THEN SvcOut(ValidationError, t, 0)
    ELSE LET r == PgOrderRepository_add_item(t, order_id, dto, fault)
         IN IF r.res.kind = "Ok" THEN SvcOut(r.res, r.table, 1)
            ELSE SvcOut(map_db_error(r.res.err, "OrderItem"), r.table, 1)

add_item_to_order(t, order_id, dto, fault) ==
    IF ~Validate(dto) THEN SvcOut(ValidationError, t, 0)
    ELSE LET r == PgOrderRepository_add_item(t, order_id, dto, fault)
         IN IF r.res.kind = "Ok" THEN SvcOut(r.res, r.table, 1)
            ELSE SvcOut(FromSqlx(r.res.err), r.table, 1)

create_product(t, dto, fault) ==
    IF ~Validate(dto) THEN SvcOut(ValidationError, t, 0)
    ELSE LET r == PgProductRepository_create(t, dto, fault)
         IN IF r.res.kind = "Ok" THEN SvcOut(r.res, r.table, 1)
            ELSE SvcOut(map_db_error(r.res.err, "Product"), r.table, 1)

-----------------------------------------------------------------------------
(* The customer endpoints (handlers.rs:18-57): one request at a time, each  *)
(* handler running its service call to completion.                          *)

Call(op, id, dto, fault, out) ==
    [op |-> op, id |-> id, dto |-> dto, fault |-> fault,
     result |-> out.result, calls |-> out.calls, pre |-> db]

Serve(table, op, id, dto, fault, out) ==
    /\ last = NoCall
    /\ db' = [db EXCEPT ![table] = out.table]
    /\ last' = Call(op, id, dto, fault, out)
    /\ UNCHANGED ingestVars

create_customer_request(dtos) ==
    \E dto \in dtos, fault \in Faults :
        Serve("customers", "create_customer", dto.customer_id, dto, fault,
              create_customer(db.customers, dto, fault))

create_customer_handler == create_customer_request(CreateCustomerDtos)

get_customer_by_id_handler ==
    \E id \in Ids, fault \in IoFaults :
        Serve("customers", "get_customer_by_id", id, Absent, fault,
              get_customer_by_id(db.customers, id, fault))

update_customer_handler ==
    \E id \in Ids, dto \in UpdateCustomerDtos, fault \in IoFaults :
        Serve("customers", "update_customer", id, dto, fault,
              update_customer(db.customers, id, dto, fault))

delete_customer_handler ==
    \E id \in Ids, fault \in IoFaults :
        Serve("customers", "delete_customer", id, Absent, fault,
              delete_customer(db.customers, id, fault))

\* The response has been sent; the server is ready for the next request.
Respond ==
    /\ last # NoCall
    /\ last' = NoCall
    /\ UNCHANGED <<db, ingestVars>>

IngestIdle ==
    /\ pc = "idle" /\ can_open = FALSE /\ src_len = 0 /\ pos = 0
    /\ cur = None /\ success_count = 0 /\ error_count = 0 /\ ret = None
    /\ tags = <<>> /\ dispatched = <<>> /\ inflight = 0 /\ disp = NoCall
    /\ db0 = EmptyDb

Init ==
    /\ db = EmptyDb
    /\ last = NoCall
    /\ nops = 0
    /\ IngestIdle

Next ==
    \/ create_customer_handler /\ UNCHANGED nops
    \/ get_customer_by_id_handler /\ UNCHANGED nops
    \/ update_customer_handler /\ UNCHANGED nops
    \/ delete_customer_handler /\ UNCHANGED nops
    \/ Respond /\ UNCHANGED nops

Spec == Init /\ [][Next]_vars

-----------------------------------------------------------------------------
(* All endpoints that take a request body (handlers.rs:18-167), for a       *)
(* bounded number of requests.                                              *)

create_seller_handler ==
    \E dto \in CreateSellerDtos, fault \in Faults :
        Serve("sellers", "create_seller", dto.seller_id, dto, fault,
              create_seller(db.sellers, dto, fault))

create_order_handler ==
    \E dto \in CreateOrderDtos, fault \in Faults :
        Serve("orders", "create_order", dto.order_id, dto, fault,
              create_order(db.orders, dto, fault))

add_item_to_order_by_id_handler ==
    \E order_id \in Ids, dto \in AddItemToOrderDtos, fault \in Faults :
        Serve("order_items", "add_item_to_order", order_id, dto, fault,
              add_item_to_order(db.order_items, order_id, dto, fault))

create_product_handler ==
    \E dto \in CreateProductDtos, fault \in Faults :
        Serve("products", "create_product", dto.product_id, dto, fault,
              create_product(db.products, dto, fault))

Counted(A) == nops < MaxOps /\ nops' = nops + 1 /\ A

NextCreate ==
    \/ Counted(create_customer_request(CreateCustomerDtosAB))
    \/ Counted(create_seller_handler)
    \/ Counted(create_order_handler)
    \/ Counted(create_product_handler)
    \/ Counted(add_item_to_order_by_id_handler)
    \/ Counted(update_customer_handler)
    \/ Respond /\ UNCHANGED nops

SpecCreate == Init /\ [][NextCreate]_vars

-----------------------------------------------------------------------------
(* load_csv_data (handlers.rs:237-273), called as load_data_from_csv_handler *)
(* calls it for the customers file: process_fn is create_customer.         *)

\* The closure of handlers.rs:198-201.
process_fn(t, record, fault) ==
    LET o == create_customer(t, record, fault)
    IN SvcOut(IF o.result.kind = "Ok" THEN Ok(Unit) ELSE o.result, o.table, o.calls)

\* The stores an ingestion run can start from: some customers are there.
SeedRow(id) ==
    [customer_id |-> id, customer_unique_id |-> "u1",
     customer_zip_code_prefix |-> "z1", customer_city |-> "c1",
     customer_state |-> "s1"]

SeedDbs ==
    {[EmptyDb EXCEPT !.customers =
          [i \in Ids |-> IF i \in S THEN Some(SeedRow(i)) ELSE None]] :
       S \in SUBSET Ids}

InitIngest ==
    /\ db \in SeedDbs
    /\ db0 = db
    /\ last = NoCall
    /\ nops = 0
    /\ pc = "start"
    /\ can_open \in BOOLEAN
    /\ src_len \in 0..MaxRecords
    /\ pos = 0
    /\ cur = None
    /\ success_count = 0
    /\ error_count = 0
    /\ ret = None
    /\ tags = <<>>
    /\ dispatched = <<>>
    /\ inflight = 0
    /\ disp = NoCall

\* The open step that logs the failure and goes on to the loop.
Open_ignores_failure ==
    /\ pc = "start"
    /\ pc' = "loop"
    /\ success_count' = 0
    /\ error_count' = 0
    /\ UNCHANGED <<db, last, nops, can_open, src_len, pos, cur, ret, tags,
                   dispatched, inflight, disp, db0>>

\* handlers.rs:243-249
Open ==
    /\ pc = "start"
    /\ IF can_open
       THEN /\ pc' = "loop"
            /\ success_count' = 0
            /\ error_count' = 0
            /\ ret' = ret
       ELSE /\ pc' = "done"
            /\ ret' = Some(ConfigError("Failed to open CSV file"))
            /\ UNCHANGED <<success_count, error_count>>
    /\ UNCHANGED <<db, last, nops, can_open, src_len, pos, cur, tags,
                   dispatched, inflight, disp, db0>>

\* handlers.rs:253, 272: the iterator is exhausted
EndOfSource ==
    /\ pc = "loop"
    /\ pos = src_len
    /\ pc' = "done"
    /\ ret' = Some(Ok(<<success_count, error_count>>))
    /\ disp' = NoCall
    /\ UNCHANGED <<db, last, nops, can_open, src_len, pos, cur, success_count,
                   error_count, tags, dispatched, inflight, db0>>

\* handlers.rs:253-260: the next record does not parse
ParseError ==
    /\ pc = "loop"
    /\ pos < src_len
    /\ pos' = pos + 1
    /\ tags' = Append(tags, "parse_error")
    /\ error_count' = error_count + 1
    /\ disp' = NoCall
    /\ UNCHANGED <<db, last, nops, pc, can_open, src_len, cur, success_count,
                   ret, dispatched, inflight, db0>>

\* The loop body that hands the record to a spawned task and goes on.
ParseOk_spawns ==
    /\ pc = "loop"
    /\ pos < src_len
    /\ \E dto \in CreateCustomerDtosAB :
          cur' = Some(dto)
    /\ pos' = pos + 1
    /\ dispatched' = Append(dispatched, pos + 1)
    /\ inflight' = inflight + 1
    /\ tags' = Append(tags, "ok")
    /\ success_count' = success_count + 1
    /\ disp' = NoCall
    /\ UNCHANGED <<db, last, nops, pc, can_open, src_len, error_count,
                   ret, db0>>

\* handlers.rs:253-255, 263: the next record parses and process_fn is called
\* with it; the loop waits for it to return
ParseOk ==
    /\ pc = "loop"
    /\ pos < src_len
    /\ \E dto \in CreateCustomerDtosAB :
          cur' = Some(dto)
    /\ pos' = pos + 1
    /\ dispatched' = Append(dispatched, pos + 1)
    /\ inflight' = inflight + 1
    /\ pc' = "await"
    /\ disp' = NoCall
    /\ UNCHANGED <<db, last, nops, can_open, src_len, success_count,
                   error_count, ret, tags, db0>>

Dispatch(fault, out) ==
    [idx |-> pos, dto |-> cur.val, fault |-> fault, result |-> out.result,
     pre |-> db, s0 |-> success_count, e0 |-> error_count]

\* The service has run and process_fn returns `out`.
Returned(fault, out) ==
    /\ db' = [db EXCEPT !.customers = out.table]
    /\ disp' = Dispatch(fault, out)
    /\ inflight' = inflight - 1
    /\ tags' = Append(tags, IF out.result.kind = "Ok" THEN "ok" ELSE "err")

\* The match that returns a dispatch error to the caller (`?`).
DispatchReturn_propagates ==
    /\ pc = "await"
    /\ \E fault \in Faults :
          LET out == process_fn(db.customers, cur.val, fault)
          IN /\ Returned(fault, out)
             /\ IF out.result.kind = "Ok"
                THEN /\ success_count' = success_count + 1
                     /\ pc' = "loop"
                     /\ ret' = ret
                ELSE /\ success_count' = success_count
                     /\ pc' = "done"
                     /\ ret' = Some(out.result)
             /\ error_count' = error_count
    /\ UNCHANGED <<last, nops, can_open, src_len, pos, cur, dispatched, db0>>

\* The match that dispatches the record again until it is accepted.
DispatchReturn_retries ==
    /\ pc = "await"
    /\ \E fault \in Faults :
          LET out == process_fn(db.customers, cur.val, fault)
          IN IF out.result.kind = "Ok"
             THEN /\ Returned(fault, out)
                  /\ success_count' = success_count + 1
                  /\ pc' = "loop"
             ELSE /\ db' = [db EXCEPT !.customers = out.table]
                  /\ UNCHANGED <<disp, inflight, tags, success_count, pc>>
    /\ UNCHANGED <<last, nops, can_open, src_len, pos, cur, error_count, ret,
                   dispatched, db0>>

\* handlers.rs:263-269: process_fn returns and its result is tallied
DispatchReturn ==
    /\ pc = "await"
    /\ \E fault \in Faults :
          LET out == process_fn(db.customers, cur.val, fault)
          IN /\ Returned(fault, out)
             /\ IF out.result.kind = "Ok"
                THEN /\ success_count' = success_count + 1
                     /\ error_count' = error_count
                ELSE /\ error_count' = error_count + 1
                     /\ success_count' = success_count
    /\ pc' = "loop"
    /\ UNCHANGED <<last, nops, can_open, src_len, pos, cur, ret, dispatched, db0>>

NextIngest ==
    \/ Open
    \/ EndOfSource
    \/ ParseError
    \/ ParseOk
    \/ DispatchReturn

SpecIngest == InitIngest /\ [][NextIngest]_vars

\* The loop is sequential code: it takes its next step, and every call of
\* process_fn returns.
SpecIngestFair == SpecIngest /\ WF_vars(NextIngest)

-----------------------------------------------------------------------------
(* Properties of an ingestion run, checked under SpecIngest *)

Stored(d, id) == d.customers[id].some

Count(seq, S) == Cardinality({i \in 1..Len(seq) : seq[i] \in S})

Range(seq) == {seq[i] : i \in 1..Len(seq)}

\* C1: a run whose source opens returns Ok((success_count, error_count)) and
\* never an error; success_count is the number of records that parsed and
\* whose dispatch returned Ok, error_count the number that failed to parse or
\* whose dispatch returned an error, and at the return every record of the
\* source has been counted once.
C1_CountsEveryRecord ==
    /\ success_count = Count(tags, {"ok"})
    /\ error_count = Count(tags, {"parse_error", "err"})
    /\ (can_open /\ pc = "done")
         => /\ ret = Some(Ok(<<success_count, error_count>>))
            /\ Len(tags) = src_len
            /\ success_count + error_count = src_len

C1_Witness ==
    /\ pc = "done"
    /\ tags = <<"parse_error", "ok", "err", "ok">>
    /\ ret = Some(Ok(<<2, 2>>))

\* C2: when the source cannot be opened the run returns ConfigError at once:
\* process_fn is never called, no record is read and the store is unchanged;
\* and a run that returns an error is a run whose source did not open.
C2_OpenFailureIsFatal ==
    /\ ~can_open
         => /\ pc \in {"start", "done"}
            /\ pc = "done" => ret.some /\ ret.val.kind = "ConfigError"
            /\ dispatched = <<>>
            /\ pos = 0
            /\ tags = <<>>
            /\ db = db0
    /\ (ret.some /\ ret.val.kind # "Ok")
         => ~can_open /\ ret.val.kind = "ConfigError"

C2_Witness ==
    /\ ~can_open
    /\ src_len > 0
    /\ pc = "done"
    /\ ret.some
    /\ ret.val.kind = "ConfigError"

\* C3: process_fn is called with the records in source order and one at a
\* time: at most one call is in flight, the record numbers it was called with
\* increase strictly, a record that failed to parse is never among them, and
\* every record that parsed is among them exactly once.
C3_DispatchInOrder ==
    /\ inflight \in {0, 1}
    /\ inflight = 1 <=> pc = "await"
    /\ \A i \in 1..Len(dispatched) - 1 : dispatched[i] < dispatched[i + 1]
    /\ Range(dispatched) \subseteq 1..pos
    /\ \A i \in 1..Len(tags) :
          tags[i] = "parse_error" <=> i \notin Range(dispatched)
    /\ pc = "await" => Len(tags) = pos - 1 /\ dispatched[Len(dispatched)] = pos
    /\ pc \in {"loop", "done"} => Len(tags) = pos

C3_Witness ==
    /\ pc = "done"
    /\ dispatched = <<1, 3, 4>>
    /\ tags = <<"ok", "parse_error", "err", "ok">>

\* C4: every record that parses is dispatched, whatever its identifier.  A
\* valid record whose identifier is not stored is inserted and counted as a
\* success; a valid record whose identifier is stored, in particular by an
\* earlier record of the same run, is dispatched all the same, rejected as
\* AlreadyExists, counted as an error, and changes nothing in the store.
\* (Storage calls that do not fail otherwise.)
C4_DuplicatesAreErrors ==
    /\ pc \in {"loop", "done"}
         => Len(dispatched) + Count(tags, {"parse_error"}) = pos
    /\ (disp # NoCall /\ Validate(disp.dto) /\ disp.fault = NoFault)
         => IF Stored(disp.pre, disp.dto.customer_id)
            THEN /\ disp.result.kind = "AlreadyExists"
                 /\ db = disp.pre
                 /\ error_count = disp.e0 + 1
                 /\ success_count = disp.s0
            ELSE /\ disp.result = Ok(Unit)
                 /\ db.customers =
                      [disp.pre.customers EXCEPT
                          ![disp.dto.customer_id] = Some(disp.dto)]
                 /\ success_count = disp.s0 + 1
                 /\ error_count = disp.e0

C4_Witness ==
    /\ disp # NoCall
    /\ Validate(disp.dto)
    /\ ~Stored(db0, disp.dto.customer_id)
    /\ Stored(disp.pre, disp.dto.customer_id)
    /\ disp.pre.customers[disp.dto.customer_id].val # disp.dto
    /\ disp.result.kind = "AlreadyExists"
    /\ success_count = 1
    /\ error_count = 2
    /\ tags = <<"ok", "err", "err">>

\* C5: every run ends: it reaches "done" either at the open step with
\* ConfigError and no record read, or at the end of the source with its
\* counts, given that the loop keeps stepping and every dispatch returns.
Terminated ==
    /\ pc = "done"
    /\ ret.some
    /\ IF can_open
       THEN pos = src_len /\ ret.val = Ok(<<success_count, error_count>>)
       ELSE pos = 0 /\ ret.val.kind = "ConfigError"

C5_RunTerminates == <>Terminated

C5_Witness ==
    /\ Terminated
    /\ can_open
    /\ src_len = 3
    /\ Count(tags, {"err"}) = 3

-----------------------------------------------------------------------------
(* Properties of the create and update operations, checked under SpecCreate *)

CreateOps == {"create_customer", "create_seller", "create_order", "create_product"}

DtoOps == CreateOps \cup {"add_item_to_order", "update_customer"}

ResourceName(op) ==
    CASE op = "create_customer" -> "Customer"
      [] op = "create_seller" -> "Seller"
      [] op = "create_order" -> "Order"
      [] op = "create_product" -> "Product"

TableOf(op) ==
    CASE op = "create_customer" -> "customers"
      [] op = "create_seller" -> "sellers"
      [] op = "create_order" -> "orders"
      [] op = "create_product" -> "products"

RowBefore(c) == c.pre[TableOf(c.op)][c.id]

\* C6: a create of Customer, Seller, Order or Product that reaches the
\* repository with an identifier already stored fails with AlreadyExists
\* naming the resource and leaves the stored row as it was; AlreadyExists
\* arises from nothing but that unique violation, and every other storage
\* failure of create is a DatabaseError carrying the storage error.
C6_DuplicateCreateIsAlreadyExists ==
    (last.op \in CreateOps /\ Validate(last.dto))
        => /\ (last.fault = NoFault /\ RowBefore(last).some)
                => /\ last.result =
                        AlreadyExists(<<ResourceName(last.op), " already exists">>)
                   /\ db = last.pre
           /\ last.result.kind = "AlreadyExists"
                => last.fault = NoFault /\ RowBefore(last).some
           /\ last.fault # NoFault
                => last.result = DatabaseError(last.fault) /\ db = last.pre

C6_Witness ==
    /\ last.op = "create_seller"
    /\ last.fault = NoFault
    /\ RowBefore(last).some
    /\ RowBefore(last).val # last.dto
    /\ last.result.kind = "AlreadyExists"
    /\ db.sellers[last.id] = RowBefore(last)

\* C7: in every service operation that takes a DTO, a DTO that fails
\* validation gives ValidationError with no repository invocation and an
\* unchanged store; the repository is invoked only with a valid DTO.
C7_ValidationBeforeRepository ==
    last.op \in DtoOps
        => /\ ~Validate(last.dto)
                => /\ last.result = ValidationError
                   /\ last.calls = 0
                   /\ db = last.pre
           /\ last.calls > 0 => Validate(last.dto)

C7_Witness ==
    /\ last.op = "add_item_to_order"
    /\ ~Validate(last.dto)
    /\ last.fault = NoFault
    /\ ~last.pre.order_items[last.id].some
    /\ last.result = ValidationError
    /\ db = last.pre

-----------------------------------------------------------------------------
(* Properties of the customer service, checked under Spec *)

UpdatableFields ==
    {"customer_unique_id", "customer_zip_code_prefix",
     "customer_city", "customer_state"}

AllAbsent(dto) == \A f \in UpdatableFields : dto[f] = Absent

\* C8: update_customer with a DTO in which all four updatable fields are
\* absent returns NoChangesToUpdate, makes no repository call and leaves the
\* store as it was, whether or not the id has a row.
C8_EmptyUpdateIsNoChanges ==
    (last.op = "update_customer" /\ AllAbsent(last.dto))
        => /\ last.result = NoChangesToUpdate
           /\ last.calls = 0
           /\ db = last.pre

C8_Witness ==
    /\ last.op = "update_customer"
    /\ AllAbsent(last.dto)
    /\ ~Stored(last.pre, last.id)
    /\ last.result = NoChangesToUpdate

\* C9: a valid update with at least one field present, on a storage call
\* that succeeds: on an existing id every updatable field holds the DTO's
\* value when present and the previous value when absent, customer_id and
\* every other row are unchanged, and the resulting row is returned; on an id
\* with no row the result is NotFound and nothing changes.
C9_UpdateCoalesces ==
    (/\ last.op = "update_customer"
     /\ Validate(last.dto)
     /\ ~AllAbsent(last.dto)
     /\ last.fault = NoFault)
        => IF Stored(last.pre, last.id)
           THEN LET old == last.pre.customers[last.id].val
                    new == db.customers[last.id]
                IN /\ new.some
                   /\ \A f \in UpdatableFields :
                         new.val[f] = IF last.dto[f] = Absent THEN old[f]
                                      ELSE last.dto[f]
                   /\ new.val.customer_id = last.id
                   /\ old.customer_id = last.id
                   /\ \A j \in Ids \ {last.id} :
                         db.customers[j] = last.pre.customers[j]
                   /\ last.result = Ok(new.val)
           ELSE /\ last.result = NotFound
                /\ db = last.pre

C9_Witness ==
    /\ last.op = "update_customer"
    /\ last.fault = NoFault
    /\ Stored(last.pre, last.id)
    /\ last.dto.customer_city = "c2"
    /\ last.dto.customer_state = Absent
    /\ last.result.kind = "Ok"
    /\ last.result.value.customer_city = "c2"
    /\ last.result.value.customer_state = "s1"
    /\ \E j \in Ids \ {last.id} : Stored(db, j)

\* C10: delete_customer on an id with no row returns NotFound and changes
\* nothing; on an existing id it removes exactly that row and returns
\* success.  While an id has no row, delete_customer, get_customer_by_id and
\* a non-empty update_customer on it return NotFound, and the only step that
\* gives the id a row again is a create_customer of that id.
C10_DeleteResult ==
    (last.op = "delete_customer" /\ last.fault = NoFault)
        => IF Stored(last.pre, last.id)
           THEN /\ last.result = Ok(Unit)
                /\ db.customers = [last.pre.customers EXCEPT ![last.id] = None]
           ELSE /\ last.result = NotFound
                /\ db = last.pre

C10_AbsentIsNotFound ==
    (/\ last.op \in {"delete_customer", "get_customer_by_id", "update_customer"}
     /\ last.fault = NoFault
     /\ last.op = "update_customer" => Validate(last.dto) /\ ~AllAbsent(last.dto)
     /\ ~Stored(last.pre, last.id))
        => last.result = NotFound /\ ~Stored(db, last.id)

C10_OnlyCreateRestores ==
    \A id \in Ids :
        (~Stored(db, id) /\ Stored(db', id))
            => last'.op = "create_customer" /\ last'.id = id

\* C10, as one formula: the two state properties in every reachable state and
\* the step property on every step.
C10_DeleteThenNotFound ==
    /\ [](C10_DeleteResult /\ C10_AbsentIsNotFound)
    /\ [][C10_OnlyCreateRestores]_vars

C10_Witness ==
    /\ last.op = "delete_customer"
    /\ Stored(last.pre, last.id)
    /\ last.result = Ok(Unit)
    /\ ~Stored(db, last.id)
    /\ \E j \in Ids \ {last.id} : Stored(db, j)

-----------------------------------------------------------------------------
(* Reading one entity by its identifier (services.rs:38-43, 115-120,        *)
(* 173-178, 258-263), after creates and updates have filled the store.      *)

PgSellerRepository_find_by_id(t, id, fault) ==
    IF fault # NoFault THEN RepoOut(SqlErr(fault), t)
    ELSE RepoOut(Ok(t[id]), t)

PgOrderRepository_find_by_id(t, id, fault) ==
    IF fault # NoFault THEN RepoOut(SqlErr(fault), t)
    ELSE RepoOut(Ok(t[id]), t)

PgProductRepository_find_by_id(t, id, fault) ==
    IF fault # NoFault THEN RepoOut(SqlErr(fault), t)
    ELSE RepoOut(Ok(t[id]), t)

get_seller_by_id(t, id, fault) ==
    LET r == PgSellerRepository_find_by_id(t, id, fault)
    IN IF r.res.kind # "Ok" THEN SvcOut(FromSqlx(r.res.err), r.table, 1)
       ELSE IF r.res.value.some THEN SvcOut(Ok(r.res.value.val), r.table, 1)
       ELSE SvcOut(NotFound, r.table, 1)

\* get_order_by_id that reads a failed query as "no row".
get_order_by_id_error_as_absent(t, id, fault) ==
    LET r == PgOrderRepository_find_by_id(t, id, fault)
    IN IF r.res.kind = "Ok" /\ r.res.value.some
       THEN SvcOut(Ok(r.res.value.val), r.table, 1)
       ELSE SvcOut(NotFound, r.table, 1)

get_order_by_id(t, id, fault) ==
    LET r == PgOrderRepository_find_by_id(t, id, fault)
    IN IF r.res.kind # "Ok" THEN SvcOut(FromSqlx(r.res.err), r.table, 1)
       ELSE IF r.res.value.some THEN SvcOut(Ok(r.res.value.val), r.table, 1)
       ELSE SvcOut(NotFound, r.table, 1)

get_product_by_id(t, id, fault) ==
    LET r == PgProductRepository_find_by_id(t, id, fault)
    IN IF r.res.kind # "Ok" THEN SvcOut(FromSqlx(r.res.err), r.table, 1)
       ELSE IF r.res.value.some THEN SvcOut(Ok(r.res.value.val), r.table, 1)
       ELSE SvcOut(NotFound, r.table, 1)

get_seller_by_id_handler ==
    \E id \in Ids, fault \in IoFaults :
        Serve("sellers", "get_seller_by_id", id, Absent, fault,
              get_seller_by_id(db.sellers, id, fault))

get_order_by_id_handler ==
    \E id \in Ids, fault \in IoFaults :
        Serve("orders", "get_order_by_id", id, Absent, fault,
              get_order_by_id(db.orders, id, fault))

get_product_by_id_handler ==
    \E id \in Ids, fault \in IoFaults :
        Serve("products", "get_product_by_id", id, Absent, fault,
              get_product_by_id(db.products, id, fault))

\* Update bodies that change the city or nothing.
UpdateCityDtos ==
    [customer_unique_id : {Absent}, customer_zip_code_prefix : {Absent},
     customer_city : {"c2", Absent}, customer_state : {Absent}]

update_customer_city_handler ==
    \E id \in Ids, dto \in UpdateCityDtos, fault \in IoFaults :
        Serve("customers", "update_customer", id, dto, fault,
              update_customer(db.customers, id, dto, fault))

NextGet ==
    \/ Counted(create_customer_handler)
    \/ Counted(create_seller_handler)
    \/ Counted(create_order_handler)
    \/ Counted(create_product_handler)
    \/ Counted(update_customer_city_handler)
    \/ Counted(get_customer_by_id_handler)
    \/ Counted(get_seller_by_id_handler)
    \/ Counted(get_order_by_id_handler)
    \/ Counted(get_product_by_id_handler)
    \/ Respond /\ UNCHANGED nops

SpecGet == Init /\ [][NextGet]_vars

GetByIdTable ==
    [get_customer_by_id |-> "customers", get_seller_by_id |-> "sellers",
     get_order_by_id |-> "orders", get_product_by_id |-> "products"]

\* C11: for each of the four resources get_by_id answers NotFound exactly
\* when the table holds no row under the identifier, answers the row the
\* table holds (as the last create or update left it) when there is one, and
\* answers DatabaseError, never NotFound, when the query itself fails; the
\* store is left as it was.
C11_GetById ==
    last.op \in DOMAIN GetByIdTable =>
        LET row == last.pre[GetByIdTable[last.op]][last.id]
        IN /\ db = last.pre
           /\ last.calls = 1
           /\ last.fault # NoFault =>
                  /\ last.result = DatabaseError(last.fault)
                  /\ last.result # NotFound
           /\ last.fault = NoFault =>
                  /\ last.result = NotFound <=> ~row.some
                  /\ row.some => last.result = Ok(row.val)

\* An updated customer is read back with the city the update wrote.
C11_Witness ==
    /\ last.op = "get_customer_by_id"
    /\ last.fault = NoFault
    /\ last.result.kind = "Ok"
    /\ last.result.value.customer_city = "c2"
    /\ last.result.value.customer_unique_id = "u1"

-----------------------------------------------------------------------------
(* Pagination (PaginationParams::normalize and PaginatedResponse::new of    *)
(* models.rs, as the specification describes them).                         *)

DEFAULT_PAGE_SIZE == 10
MAX_PAGE_SIZE == 100

\* normalize that leaves an oversized page_size as it is.
normalize_no_upper_clamp(pagination) ==
    LET page == IF pagination.page.some /\ pagination.page.val >= 1
                THEN pagination.page.val ELSE 1
        page_size == IF pagination.page_size.some /\ pagination.page_size.val >= 1
                     THEN pagination.page_size.val ELSE DEFAULT_PAGE_SIZE
    IN <<page_size, (page - 1) * page_size, page, page_size>>

\* normalize that computes the offset from the page number as it was sent.
normalize_raw_offset(pagination) ==
    LET raw == IF pagination.page.some THEN pagination.page.val ELSE 1
        page == IF raw >= 1 THEN raw ELSE 1
        page_size == IF ~pagination.page_size.some \/ pagination.page_size.val < 1
                     THEN DEFAULT_PAGE_SIZE
                     ELSE IF pagination.page_size.val > MAX_PAGE_SIZE
                     THEN MAX_PAGE_SIZE ELSE pagination.page_size.val
    IN <<page_size, (raw - 1) * page_size, page, page_size>>

\* (limit, offset, page, page_size)
normalize(pagination) ==
    LET page == IF pagination.page.some /\ pagination.page.val >= 1
                THEN pagination.page.val ELSE 1
        page_size == IF ~pagination.page_size.some \/ pagination.page_size.val < 1
                     THEN DEFAULT_PAGE_SIZE
                     ELSE IF pagination.page_size.val > MAX_PAGE_SIZE
                     THEN MAX_PAGE_SIZE ELSE pagination.page_size.val
    IN <<page_size, (page - 1) * page_size, page, page_size>>

\* PaginatedResponse::new that rounds the number of pages down.
PaginatedResponse_new_floor(items, total_records, page, page_size) ==
    [items |-> items, total_records |-> total_records, page |-> page,
     page_size |-> page_size, total_pages |-> total_records \div page_size]

PaginatedResponse_new(items, total_records, page, page_size) ==
    [items |-> items, total_records |-> total_records, page |-> page,
     page_size |-> page_size,
     total_pages |-> (total_records + page_size - 1) \div page_size]

-----------------------------------------------------------------------------
(* The list queries of the repositories: the rows that pass the WHERE       *)
(* clause, in an order the ORDER BY clause allows, cut by LIMIT and OFFSET. *)

Rows(t) == {t[i].val : i \in {j \in Ids : t[j].some}}

\* Every sequence that lists the rows of S once each.  A query without
\* ORDER BY may return any of them.
Enumerations(S) ==
    {o \in [1..Cardinality(S) -> S] :
        \A i, j \in 1..Cardinality(S) : i # j => o[i] # o[j]}

\* ORDER BY key DESC: rows with equal keys come in any order.
OrderByDesc(S, key) ==
    {o \in Enumerations(S) :
        \A i, j \in 1..Cardinality(S) : i < j => key[o[i]] >= key[o[j]]}

\* The collation of the text values the rows carry.
Collate == [z1 |-> 1, z2 |-> 2, t1 |-> 1, t2 |-> 2]

LimitOffset(o, limit, offset) ==
    SubSeq(o, offset + 1, IF offset + limit < Len(o) THEN offset + limit ELSE Len(o))

\* $n::text IS NULL OR column = $n
IsNullOrEq(param, column) == is_none(param) \/ column = param

\* find_all of customers whose WHERE clause compares without the NULL test.
PgCustomerRepository_find_all_no_null_test(t, filter, pagination, fault) ==
    LET n == normalize(pagination)
        limit == n[1]
        offset == n[2]
        match == {r \in Rows(t) : /\ r.customer_city = filter.city
                                  /\ r.customer_state = filter.state}
        total_count == Cardinality(match)
        orders == OrderByDesc(match,
                      [r \in match |-> Collate[r.customer_zip_code_prefix]])
    IN IF fault # NoFault THEN {SqlErr(fault)}
       ELSE {Ok(<<LimitOffset(o, limit, offset), total_count>>) : o \in orders}

PgCustomerRepository_find_all(t, filter, pagination, fault) ==
    LET n == normalize(pagination)
        limit == n[1]
        offset == n[2]
        match == {r \in Rows(t) : /\ IsNullOrEq(filter.city, r.customer_city)
                                  /\ IsNullOrEq(filter.state, r.customer_state)}
        total_count == Cardinality(match)
        orders == OrderByDesc(match,
                      [r \in match |-> Collate[r.customer_zip_code_prefix]])
    IN IF fault # NoFault THEN {SqlErr(fault)}
       ELSE {Ok(<<LimitOffset(o, limit, offset), total_count>>) : o \in orders}

PgSellerRepository_find_all(t, filter, pagination, fault) ==
    LET n == normalize(pagination)
        limit == n[1]
        offset == n[2]
        match == {r \in Rows(t) : /\ IsNullOrEq(filter.city, r.seller_city)
                                  /\ IsNullOrEq(filter.state, r.seller_state)}
        total_count == Cardinality(match)
    IN IF fault # NoFault THEN {SqlErr(fault)}
       ELSE {Ok(<<LimitOffset(o, limit, offset), total_count>>) :
                o \in Enumerations(match)}

\* find_all of orders that counts the rows of the page it returns.
PgOrderRepository_find_all_counts_page(t, filter, pagination, fault) ==
    LET n == normalize(pagination)
        limit == n[1]
        offset == n[2]
        match == {r \in Rows(t) : IsNullOrEq(filter.status, r.order_status)}
        orders == OrderByDesc(match,
                      [r \in match |-> Collate[r.order_purchase_timestamp]])
    IN IF fault # NoFault THEN {SqlErr(fault)}
       ELSE {Ok(<<LimitOffset(o, limit, offset),
                  Len(LimitOffset(o, limit, offset))>>) : o \in orders}

PgOrderRepository_find_all(t, filter, pagination, fault) ==
    LET n == normalize(pagination)
        limit == n[1]
        offset == n[2]
        match == {r \in Rows(t) : IsNullOrEq(filter.status, r.order_status)}
        total_count == Cardinality(match)
        orders == OrderByDesc(match,
                      [r \in match |-> Collate[r.order_purchase_timestamp]])
    IN IF fault # NoFault THEN {SqlErr(fault)}
       ELSE {Ok(<<LimitOffset(o, limit, offset), total_count>>) : o \in orders}

PgOrderRepository_find_by_customer_id(t, customer_id, pagination, fault) ==
    LET n == normalize(pagination)
        limit == n[1]
        offset == n[2]
        match == {r \in Rows(t) : r.customer_id = customer_id}
        total_count == Cardinality(match)
        orders == OrderByDesc(match,
                      [r \in match |-> Collate[r.order_purchase_timestamp]])
    IN IF fault # NoFault THEN {SqlErr(fault)}
       ELSE {Ok(<<LimitOffset(o, limit, offset), total_count>>) : o \in orders}

PgProductRepository_find_all(t, filter, pagination, fault) ==
    LET n == normalize(pagination)
        limit == n[1]
        offset == n[2]
        match == {r \in Rows(t) :
                     IsNullOrEq(filter.category_name, r.product_category_name)}
        total_count == Cardinality(match)
        orders == OrderByDesc(match, [r \in match |-> r.product_id])
    IN IF fault # NoFault THEN {SqlErr(fault)}
       ELSE {Ok(<<LimitOffset(o, limit, offset), total_count>>) : o \in orders}

-----------------------------------------------------------------------------
(* The list operations of the services.  Each gives the set of outcomes the *)
(* repository's choice of row order allows.                                 *)

\* The projections of the search-query types.
QueryPagination(query) == [page |-> query.page, page_size |-> query.page_size]

LocationSearchQuery_filter(query) == [city |-> query.city, state |-> query.state]

OrderSearchQuery_filter(query) == [status |-> query.status]

ProductSearchQuery_filter(query) == [category_name |-> query.category_name]

\* Ok((items, total_records)) becomes the envelope; `?` converts a failure.
ListOut(res, page, page_size, t) ==
    IF res.kind # "Ok" THEN SvcOut(FromSqlx(res.err), t, 1)
    ELSE SvcOut(Ok(PaginatedResponse_new(res.value[1], res.value[2],
                                         page, page_size)), t, 1)

\* get_customers that echoes the page number of the request.
get_customers_echoes_request(t, query, fault) ==
    LET pagination == QueryPagination(query)
        filter == LocationSearchQuery_filter(query)
        n == normalize(pagination)
        page == IF pagination.page.some THEN pagination.page.val ELSE n[3]
    IN {ListOut(res, page, n[4], t) :
            res \in PgCustomerRepository_find_all(t, filter, pagination, fault)}

get_customers(t, query, fault) ==
    LET pagination == QueryPagination(query)
        filter == LocationSearchQuery_filter(query)
        n == normalize(pagination)
    IN {ListOut(res, n[3], n[4], t) :
            res \in PgCustomerRepository_find_all(t, filter, pagination, fault)}

get_sellers(t, query, fault) ==
    LET pagination == QueryPagination(query)
        filter == LocationSearchQuery_filter(query)
        n == normalize(pagination)
    IN {ListOut(res, n[3], n[4], t) :
            res \in PgSellerRepository_find_all(t, filter, pagination, fault)}

get_orders(t, query, fault) ==
    LET pagination == QueryPagination(query)
        filter == OrderSearchQuery_filter(query)
        n == normalize(pagination)
    IN {ListOut(res, n[3], n[4], t) :
            res \in PgOrderRepository_find_all(t, filter, pagination, fault)}

get_orders_by_customer(t, customer_id, pagination, fault) ==
    LET n == normalize(pagination)
    IN {ListOut(res, n[3], n[4], t) :
            res \in PgOrderRepository_find_by_customer_id(t, customer_id,
                                                          pagination, fault)}

get_products(t, query, fault) ==
    LET pagination == QueryPagination(query)
        filter == ProductSearchQuery_filter(query)
        n == normalize(pagination)
    IN {ListOut(res, n[3], n[4], t) :
            res \in PgProductRepository_find_all(t, filter, pagination, fault)}

\* The query strings the list endpoints are called with.
PaginationInputs ==
    [page : {None, Some(0), Some(2), Some(3)},
     page_size : {None, Some(1), Some(2), Some(MAX_PAGE_SIZE + 1)}]

LocationSearchQueries ==
    {[city |-> c, state |-> s, page |-> p.page, page_size |-> p.page_size] :
        c \in {Absent, "c1", ""}, s \in {Absent, "s1", "s2"},
        p \in PaginationInputs}

OrderSearchQueries ==
    {[status |-> s, page |-> p.page, page_size |-> p.page_size] :
        s \in {Absent, "delivered", ""}, p \in PaginationInputs}

ProductSearchQueries ==
    {[category_name |-> c, page |-> p.page, page_size |-> p.page_size] :
        c \in {Absent, "toys", ""}, p \in PaginationInputs}

get_customers_handler ==
    /\ last = NoCall
    /\ \E query \in LocationSearchQueries, fault \in IoFaults :
           \E out \in get_customers(db.customers, query, fault) :
               Serve("customers", "get_customers", Absent, query, fault, out)

get_sellers_handler ==
    /\ last = NoCall
    /\ \E query \in LocationSearchQueries, fault \in IoFaults :
           \E out \in get_sellers(db.sellers, query, fault) :
               Serve("sellers", "get_sellers", Absent, query, fault, out)

get_orders_handler ==
    /\ last = NoCall
    /\ \E query \in OrderSearchQueries, fault \in IoFaults :
           \E out \in get_orders(db.orders, query, fault) :
               Serve("orders", "get_orders", Absent, query, fault, out)

get_customer_orders_handler ==
    /\ last = NoCall
    /\ \E id \in Ids, pagination \in PaginationInputs, fault \in IoFaults :
           \E out \in get_orders_by_customer(db.orders, id, pagination, fault) :
               Serve("orders", "get_orders_by_customer", id, pagination, fault, out)

get_products_handler ==
    /\ last = NoCall
    /\ \E query \in ProductSearchQueries, fault \in IoFaults :
           \E out \in get_products(db.products, query, fault) :
               Serve("products", "get_products", Absent, query, fault, out)

\* Stores the create endpoints can have filled: one table holds rows, with
\* values that tie and values that differ in the filtered and ordered columns.
Tables(rows) == {t \in [Ids -> {None} \cup {Some(r) : r \in rows}] :
                    \A i \in Ids : t[i].some => t[i].val[1] = i}

CustomerTables ==
    {[i \in Ids |-> IF t[i].some THEN Some(t[i].val[2]) ELSE None] :
        t \in Tables({<<r.customer_id, r>> : r \in
                [customer_id : Ids, customer_unique_id : {"u1"},
                 customer_zip_code_prefix : {"z1", "z2"},
                 customer_city : {"c1", "c3"}, customer_state : {"s1"}]})}

SellerTables ==
    {[i \in Ids |-> IF t[i].some THEN Some(t[i].val[2]) ELSE None] :
        t \in Tables({<<r.seller_id, r>> : r \in
                [seller_id : Ids, seller_zip_code_prefix : {"z1"},
                 seller_city : {"c1", "c3"}, seller_state : {"s1"}]})}

OrderTables ==
    {[i \in Ids |-> IF t[i].some THEN Some(t[i].val[2]) ELSE None] :
        t \in Tables({<<r.order_id, r>> : r \in
                [order_id : Ids, customer_id : Ids,
                 order_status : {"delivered", "shipped"},
                 order_purchase_timestamp : {"t1"}]
                \cup [order_id : Ids, customer_id : {1},
                      order_status : {"delivered"},
                      order_purchase_timestamp : {"t2"}]})}

ProductTables ==
    {[i \in Ids |-> IF t[i].some THEN Some(t[i].val[2]) ELSE None] :
        t \in Tables({<<r.product_id, r>> : r \in
                [product_id : Ids, product_category_name : {"toys", "books"},
                 product_weight_g : {"w1"}]})}

ListDbs ==
    {[EmptyDb EXCEPT !.customers = t] : t \in CustomerTables}
    \cup {[EmptyDb EXCEPT !.sellers = t] : t \in SellerTables}
    \cup {[EmptyDb EXCEPT !.orders = t] : t \in OrderTables}
    \cup {[EmptyDb EXCEPT !.products = t] : t \in ProductTables}

InitList ==
    /\ db \in ListDbs
    /\ last = NoCall
    /\ nops = 0
    /\ IngestIdle

NextList ==
    \/ get_customers_handler /\ UNCHANGED nops
    \/ get_sellers_handler /\ UNCHANGED nops
    \/ get_orders_handler /\ UNCHANGED nops
    \/ get_customer_orders_handler /\ UNCHANGED nops
    \/ get_products_handler /\ UNCHANGED nops
    \/ Respond /\ UNCHANGED nops

SpecList == InitList /\ [][NextList]_vars

ListTable ==
    [get_customers |-> "customers", get_sellers |-> "sellers",
     get_orders |-> "orders", get_orders_by_customer |-> "orders",
     get_products |-> "products"]

Min(a, b) == IF a < b THEN a ELSE b

Max(a, b) == IF a > b THEN a ELSE b

\* C12: every list operation answers with the normalized page and page_size
\* of its request, and its items are the rows a query with limit = page_size
\* and offset = (page - 1) * page_size returns: distinct stored rows, as many
\* as lie between the offset and the offset plus the limit, so never more than
\* page_size.
C12_PageEnvelope ==
    (last.op \in DOMAIN ListTable /\ last.result.kind = "Ok") =>
        LET r == last.result.value
            n == normalize(QueryPagination(last.dto))
            sent == QueryPagination(last.dto)
            offset == (r.page - 1) * r.page_size
        IN /\ r.page = n[3] /\ r.page_size = n[4]
           /\ r.page = IF sent.page.some /\ sent.page.val >= 1
                       THEN sent.page.val ELSE 1
           /\ r.page_size \in 1..MAX_PAGE_SIZE
           /\ Len(r.items) <= r.page_size
           /\ Len(r.items) = Min(r.page_size, Max(0, r.total_records - offset))
           /\ \A i \in 1..Len(r.items) :
                  /\ r.items[i] \in Rows(db[ListTable[last.op]])
                  /\ \A j \in 1..Len(r.items) : i # j => r.items[i] # r.items[j]

\* A request for page 0 with page_size 1 over two stored sellers is answered
\* as page 1 with one of them.
C12_Witness ==
    /\ last.op = "get_sellers"
    /\ last.dto.page = Some(0) /\ last.dto.page_size = Some(1)
    /\ last.dto.city = Absent /\ last.dto.state = Absent
    /\ last.result.kind = "Ok"
    /\ last.result.value.page = 1
    /\ last.result.value.total_records = 2
    /\ Len(last.result.value.items) = 1

-----------------------------------------------------------------------------
(* A client that reads a whole list: it requests page 1, 2, ... of one      *)
(* list endpoint with the same filter and page_size, up to the total_pages  *)
(* the first answer announces, while nothing writes to the store.           *)

\* The answers to the requests for pages 1..total_pages (page 1 at least),
\* given the set Page[k] of answers the service may give for page k.
SequentialPages(Page) ==
    LET total_pages == (CHOOSE r \in Page[1] : TRUE).value.total_pages
        pages == 1..Max(total_pages, 1)
    IN {s \in [pages -> UNION {Page[k] : k \in pages}] :
            \A k \in pages : s[k] \in Page[k]}

AtPage(query, k) == [query EXCEPT !.page = Some(k)]

PagedInputs == [page : {None}, page_size : {Some(1), Some(2)}]

Paged(queries) == {q \in queries : QueryPagination(q) \in PagedInputs}

\* The client has received every page.
ServePages(op, id, query, responses) ==
    /\ last' = [op |-> op, id |-> id, dto |-> query, fault |-> NoFault,
                result |-> responses, calls |-> Len(responses), pre |-> db]
    /\ UNCHANGED <<db, ingestVars>>

get_customers_pages ==
    /\ last = NoCall
    /\ \E query \in Paged(LocationSearchQueries) :
           LET Page == [k \in Ids |-> {o.result : o \in
                   get_customers(db.customers, AtPage(query, k), NoFault)}]
           IN \E responses \in SequentialPages(Page) :
                  ServePages("get_customers", Absent, query, responses)

get_sellers_pages ==
    /\ last = NoCall
    /\ \E query \in Paged(LocationSearchQueries) :
           LET Page == [k \in Ids |-> {o.result : o \in
                   get_sellers(db.sellers, AtPage(query, k), NoFault)}]
           IN \E responses \in SequentialPages(Page) :
                  ServePages("get_sellers", Absent, query, responses)

get_orders_pages ==
    /\ last = NoCall
    /\ \E query \in Paged(OrderSearchQueries) :
           LET Page == [k \in Ids |-> {o.result : o \in
                   get_orders(db.orders, AtPage(query, k), NoFault)}]
           IN \E responses \in SequentialPages(Page) :
                  ServePages("get_orders", Absent, query, responses)

get_customer_orders_pages ==
    /\ last = NoCall
    /\ \E id \in Ids, pagination \in PagedInputs :
           LET Page == [k \in Ids |-> {o.result : o \in
                   get_orders_by_customer(db.orders, id,
                                          AtPage(pagination, k), NoFault)}]
           IN \E responses \in SequentialPages(Page) :
                  ServePages("get_orders_by_customer", id, pagination, responses)

get_products_pages ==
    /\ last = NoCall
    /\ \E query \in Paged(ProductSearchQueries) :
           LET Page == [k \in Ids |-> {o.result : o \in
                   get_products(db.products, AtPage(query, k), NoFault)}]
           IN \E responses \in SequentialPages(Page) :
                  ServePages("get_products", Absent, query, responses)

NextPages ==
    \/ get_customers_pages /\ UNCHANGED nops
    \/ get_sellers_pages /\ UNCHANGED nops
    \/ get_orders_pages /\ UNCHANGED nops
    \/ get_customer_orders_pages /\ UNCHANGED nops
    \/ get_products_pages /\ UNCHANGED nops
    \/ Respond /\ UNCHANGED nops

SpecPages == InitList /\ [][NextPages]_vars

\* The stored rows a list request asks for.
Matching(d, op, id, query) ==
    LET Wanted(param, column) == param # Absent => column = param
    IN CASE op = "get_customers" ->
                {r \in Rows(d.customers) :
                    /\ Wanted(query.city, r.customer_city)
                    /\ Wanted(query.state, r.customer_state)}
         [] op = "get_sellers" ->
                {r \in Rows(d.sellers) :
                    /\ Wanted(query.city, r.seller_city)
                    /\ Wanted(query.state, r.seller_state)}
         [] op = "get_orders" ->
                {r \in Rows(d.orders) : Wanted(query.status, r.order_status)}
         [] op = "get_orders_by_customer" ->
                {r \in Rows(d.orders) : r.customer_id = id}
         [] op = "get_products" ->
                {r \in Rows(d.products) :
                    Wanted(query.category_name, r.product_category_name)}

RECURSIVE SumLen(_)
SumLen(responses) ==
    IF responses = <<>> THEN 0
    ELSE Len(responses[1].value.items) + SumLen(Tail(responses))

\* C13: every page's total_records is the number of stored rows that match
\* the filter, whatever limit and offset the page was fetched with, and with
\* no write in between it equals the sum of items.length over the pages
\* fetched one after the other with the same page_size.
C13_TotalCount ==
    last.op \in DOMAIN ListTable =>
        LET matching == Matching(last.pre, last.op, last.id, last.dto)
        IN /\ \A k \in 1..Len(last.result) :
                  /\ last.result[k].kind = "Ok"
                  /\ last.result[k].value.page = k
                  /\ last.result[k].value.total_records = Cardinality(matching)
           /\ SumLen(last.result) = Cardinality(matching)

\* Two delivered orders read with page_size 1: two pages of one item each.
C13_Witness ==
    /\ last.op = "get_orders"
    /\ last.dto.status = "delivered"
    /\ last.dto.page_size = Some(1)
    /\ Len(last.result) = 2
    /\ last.result[2].value.total_records = 2
    /\ Len(last.result[2].value.items) = 1
    /\ Cardinality(Rows(last.pre.orders)) = 2

RECURSIVE Concat(_)
Concat(responses) ==
    IF responses = <<>> THEN <<>>
    ELSE responses[1].value.items \o Concat(Tail(responses))

\* C14: for every list query the pages 1..total_pages, fetched one after the
\* other from an unchanged store, hold every matching row exactly once, also
\* when rows tie on the ordering column and when the query has no ORDER BY.
\* The queries do not ensure it: the database is free to order tied and
\* unordered rows differently for each page.
C14_EveryRowOnce ==
    last.op \in DOMAIN ListTable =>
        LET items == Concat(last.result)
            matching == Matching(last.pre, last.op, last.id, last.dto)
        IN /\ Len(items) = Cardinality(matching)
           /\ {items[i] : i \in 1..Len(items)} = matching

\* C15: a filter field that is absent puts no constraint on the rows (it does
\* not stand for the empty string), a field that is present admits exactly the
\* rows whose column equals it, each field on its own; the items and
\* total_records are taken under the same predicate, so a filtered answer
\* lies within the rows the unfiltered request ranges over.
C15_FilterIsEquality ==
    (last.op \in DOMAIN ListTable /\ last.result.kind = "Ok") =>
        LET r == last.result.value
            q == last.dto
            all == Rows(db[ListTable[last.op]])
            Has(f) == f \in DOMAIN q /\ q[f] # Absent
            admitted ==
                CASE last.op = "get_customers" ->
                        {x \in all :
                            /\ Has("city") => x.customer_city = q.city
                            /\ Has("state") => x.customer_state = q.state}
                  [] last.op = "get_sellers" ->
                        {x \in all :
                            /\ Has("city") => x.seller_city = q.city
                            /\ Has("state") => x.seller_state = q.state}
                  [] last.op = "get_orders" ->
                        {x \in all : Has("status") => x.order_status = q.status}
                  [] last.op = "get_orders_by_customer" ->
                        {x \in all : x.customer_id = last.id}
                  [] last.op = "get_products" ->
                        {x \in all : Has("category_name") =>
                                        x.product_category_name = q.category_name}
        IN /\ \A i \in 1..Len(r.items) : r.items[i] \in admitted
           /\ r.total_records = Cardinality(admitted)
           /\ admitted \subseteq all
           /\ (/\ last.op # "get_orders_by_customer"
               /\ \A f \in DOMAIN q \ {"page", "page_size"} : ~Has(f)) =>
                  r.total_records = Cardinality(all)

\* Of a customer in c1 and a customer in c3, the filter city = c1 with no
\* state returns the first alone.
C15_Witness ==
    /\ last.op = "get_customers"
    /\ last.dto.city = "c1" /\ last.dto.state = Absent
    /\ last.dto.page = None /\ last.dto.page_size = None
    /\ last.result.kind = "Ok"
    /\ last.result.value.total_records = 1
    /\ Len(last.result.value.items) = 1
    /\ last.result.value.items[1].customer_city = "c1"
    /\ Cardinality(Rows(db.customers)) = 2

-----------------------------------------------------------------------------
(* The pagination functions on their own, over page numbers and sizes below, *)
(* within and above the admitted range.                                      *)

MaxPage == 4
MaxTotal == 12
LargePage == 1000000

NormalizeInputs ==
    [page : {None} \cup {Some(p) : p \in (-2..MaxPage) \cup {LargePage}},
     page_size : {None} \cup {Some(s) : s \in (-1..MaxPage)
                    \cup {DEFAULT_PAGE_SIZE, MAX_PAGE_SIZE - 1, MAX_PAGE_SIZE,
                          MAX_PAGE_SIZE + 1, LargePage}}]

normalize_call ==
    /\ last = NoCall
    /\ \E pagination \in NormalizeInputs :
           last' = [op |-> "normalize", id |-> Absent, dto |-> pagination,
                    fault |-> NoFault, result |-> normalize(pagination),
                    calls |-> 0, pre |-> db]
    /\ UNCHANGED <<db, nops, ingestVars>>

PaginatedResponse_new_call ==
    /\ last = NoCall
    /\ \E total_records \in 0..MaxTotal, page \in {1},
          page_size \in {1, 2, 3, DEFAULT_PAGE_SIZE, MAX_PAGE_SIZE} :
           last' = [op |-> "PaginatedResponse::new", id |-> Absent,
                    dto |-> <<total_records, page, page_size>>,
                    fault |-> NoFault,
                    result |-> PaginatedResponse_new(<<>>, total_records,
                                                     page, page_size),
                    calls |-> 0, pre |-> db]
    /\ UNCHANGED <<db, nops, ingestVars>>

NextPagination ==
    \/ normalize_call
    \/ PaginatedResponse_new_call
    \/ Respond /\ UNCHANGED nops

SpecPagination == Init /\ [][NextPagination]_vars

\* C16: normalize corrects its input and never rejects it: a page of 0 or
\* less (or none) becomes 1, a page_size above MAX_PAGE_SIZE becomes
\* MAX_PAGE_SIZE, a page_size of 0 or less or none becomes the default, and
\* values within range come back unchanged; the result always has page >= 1
\* and 1 <= page_size <= MAX_PAGE_SIZE.
C16_NormalizeCorrects ==
    last.op = "normalize" =>
        LET sent == last.dto
            page == last.result[3]
            page_size == last.result[4]
        IN /\ page >= 1
           /\ page_size >= 1 /\ page_size <= MAX_PAGE_SIZE
           /\ (sent.page.some /\ sent.page.val <= 0) => page = 1
           /\ ~sent.page.some => page = 1
           /\ (sent.page.some /\ sent.page.val >= 1) => page = sent.page.val
           /\ (sent.page_size.some /\ sent.page_size.val > MAX_PAGE_SIZE) =>
                  page_size = MAX_PAGE_SIZE
           /\ (~sent.page_size.some \/ sent.page_size.val <= 0) =>
                  page_size = DEFAULT_PAGE_SIZE
           /\ (sent.page_size.some /\ sent.page_size.val \in 1..MAX_PAGE_SIZE) =>
                  page_size = sent.page_size.val

\* page = -2 with page_size = MAX_PAGE_SIZE + 1 is corrected in both fields.
C16_Witness ==
    /\ last.op = "normalize"
    /\ last.dto = [page |-> Some(-2), page_size |-> Some(MAX_PAGE_SIZE + 1)]
    /\ last.result[3] = 1
    /\ last.result[4] = MAX_PAGE_SIZE

C18_TotalPagesIsCeiling ==
    last.op = "PaginatedResponse::new" =>
        LET total_records == last.dto[1]
            page_size == last.dto[3]
            total_pages == last.result.total_pages
        IN /\ total_pages * page_size >= total_records
           /\ (total_pages - 1) * page_size < total_records
           /\ total_pages >= 0
           /\ total_pages = 0 <=> total_records = 0
           /\ last.result.total_records = total_records
           /\ last.result.page_size = page_size

\* Eleven records in pages of ten: two pages.
C18_Witness ==
    /\ last.op = "PaginatedResponse::new"
    /\ last.dto[1] = DEFAULT_PAGE_SIZE + 1
    /\ last.dto[3] = DEFAULT_PAGE_SIZE
    /\ last.result.total_pages = 2

-----------------------------------------------------------------------------
(* The products of an order with their total value (services.rs:181-191).   *)
(* price and freight_value are exact decimals (NUMERIC columns read into    *)
(* BigDecimal); they are written in hundredths, so 10.50 is 1050, and       *)
(* BigDecimal addition is integer addition.                                 *)

\* INNER JOIN of products and order_items for one order: one joined row for
\* each item of the order whose product is stored, in any order.
PgOrderRepository_find_products_by_order_id(d, id, fault) ==
    LET pairs == {<<oi, p>> \in Rows(d.order_items) \X Rows(d.products) :
                     oi.order_id = id /\ p.product_id = oi.product_id}
        OrderProduct(pair) ==
            [product_id |-> pair[2].product_id,
             product_category_name |-> pair[2].product_category_name,
             product_weight_g |-> pair[2].product_weight_g,
             shipping_limit_date |-> pair[1].shipping_limit_date,
             price |-> pair[1].price,
             freight_value |-> pair[1].freight_value]
    IN IF fault # NoFault THEN {SqlErr(fault)}
       ELSE {Ok([i \in 1..Len(o) |-> OrderProduct(o[i])]) :
                o \in Enumerations(pairs)}

\* products.iter().fold(acc, |acc, product| acc + &product.price)
RECURSIVE FoldPrice(_, _)
FoldPrice(acc, products) ==
    IF products = <<>> THEN acc
    ELSE FoldPrice(acc + products[1].price, Tail(products))

\* products.iter().fold(acc, |acc, product|
\*     acc + &product.price + &product.freight_value)
RECURSIVE Fold(_, _)
Fold(acc, products) ==
    IF products = <<>> THEN acc
    ELSE Fold(acc + products[1].price + products[1].freight_value,
              Tail(products))

\* get_products_by_order_id that adds up the prices alone.
get_products_by_order_id_price_only(d, id, fault) ==
    {IF res.kind # "Ok" THEN SvcOut(FromSqlx(res.err), d.order_items, 1)
     ELSE SvcOut(Ok([products |-> res.value,
                     total_value |-> FoldPrice(0, res.value)]),
                 d.order_items, 1) :
         res \in PgOrderRepository_find_products_by_order_id(d, id, fault)}

get_products_by_order_id(d, id, fault) ==
    {IF res.kind # "Ok" THEN SvcOut(FromSqlx(res.err), d.order_items, 1)
     ELSE SvcOut(Ok([products |-> res.value,
                     total_value |-> Fold(0, res.value)]),
                 d.order_items, 1) :
         res \in PgOrderRepository_find_products_by_order_id(d, id, fault)}

get_products_by_order_id_handler ==
    /\ last = NoCall
    /\ \E id \in Ids, fault \in IoFaults :
           \E out \in get_products_by_order_id(db, id, fault) :
               Serve("order_items", "get_products_by_order_id", id, Absent,
                     fault, out)

\* Stores with items: the item in slot k of the table has order_item_id k
\* and belongs to any order; product 1 is stored, product 2 may be.
ItemTables ==
    [Ids -> {None} \cup {Some(r) : r \in
        [order_item_id : Ids, order_id : Ids, product_id : {1, 2},
         seller_id : {1}, shipping_limit_date : {"t1"},
         price : {1050}, freight_value : {100}]
        \cup [order_item_id : Ids, order_id : Ids, product_id : {1, 2},
              seller_id : {1}, shipping_limit_date : {"t1"},
              price : {525}, freight_value : {75}]}]

ItemDbs ==
    {[EmptyDb EXCEPT !.order_items = items, !.products = products] :
        items \in {t \in ItemTables :
                      \A k \in Ids : t[k].some => t[k].val.order_item_id = k},
        products \in {t \in ProductTables :
                         /\ t[1].some
                         /\ \A k \in Ids : t[k].some =>
                                t[k].val.product_category_name = "toys"}}

InitItems ==
    /\ db \in ItemDbs
    /\ last = NoCall
    /\ nops = 0
    /\ IngestIdle

NextItems ==
    \/ get_products_by_order_id_handler /\ UNCHANGED nops
    \/ Respond /\ UNCHANGED nops

SpecItems == InitItems /\ [][NextItems]_vars

RECURSIVE SumValue(_)
SumValue(S) ==
    IF S = {} THEN 0
    ELSE LET oi == CHOOSE x \in S : TRUE
         IN oi.price + oi.freight_value + SumValue(S \ {oi})

\* C19: total_value is the exact sum of price + freight_value over every
\* joined row returned, and an order without joined rows (an identifier no
\* order or item carries included) gives an empty list with total_value 0,
\* not NotFound.
C19_TotalValueIsExactSum ==
    (last.op = "get_products_by_order_id" /\ last.fault = NoFault) =>
        LET joined == {oi \in Rows(last.pre.order_items) :
                          /\ oi.order_id = last.id
                          /\ \E p \in Rows(last.pre.products) :
                                 p.product_id = oi.product_id}
        IN /\ last.result.kind = "Ok"
           /\ Len(last.result.value.products) = Cardinality(joined)
           /\ last.result.value.total_value = SumValue(joined)
           /\ joined = {} => /\ last.result.value.products = <<>>
                             /\ last.result.value.total_value = 0

\* Two items of one order, 10.50 + 1.00 and 5.25 + 0.75: 17.50.
C19_Witness ==
    /\ last.op = "get_products_by_order_id"
    /\ last.result.kind = "Ok"
    /\ Len(last.result.value.products) = 2
    /\ {<<p.price, p.freight_value>> : p \in
            {last.result.value.products[i] : i \in 1..2}}
       = {<<1050, 100>>, <<525, 75>>}
    /\ last.result.value.total_value = 1750

-----------------------------------------------------------------------------
(* impl IntoResponse for AppError (error.rs:39-76): the status and the      *)
(* {"error": msg} body a failed request is answered with, and what is       *)
(* written to the log.  A message is the sequence of its parts.             *)

MigrationError(e) == [kind |-> "MigrationError", err |-> e]

\* AppError::ValidationError with the validator's report.
ValidationErrorOf(errors) == [kind |-> "ValidationError", errors |-> errors]

\* handlers.rs:243-246: the error load_csv_data returns for a file that
\* cannot be opened; load_data_from_csv_handler passes it on with `?`.
OpenFailure(e) == ConfigError(<<"Failed to open CSV file: ", e>>)

Response(status, msg, log) ==
    [status |-> status, body |-> [error |-> msg], log |-> log]

into_response(err) ==
    CASE err.kind = "NotFound" ->
            Response(404, <<"Resource Not Found">>, <<>>)
      [] err.kind = "ValidationError" ->
            Response(400, <<"Validation error: ", err.errors>>, <<>>)
      [] err.kind = "NoChangesToUpdate" ->
            Response(400, <<"No valid fields provided for update.">>, <<>>)
      [] err.kind = "AlreadyExists" ->
            Response(409, err.msg, <<>>)
      [] err.kind = "DatabaseError" ->
            Response(500, <<"Database Operation Failed">>,
                     <<"Database Error: ", err.err>>)
      [] err.kind = "MigrationError" ->
            Response(500, <<"Database Migration Failed">>,
                     <<"Migration Error: ", err.err>>)
      [] err.kind = "ConfigError" ->
            Response(500, <<"Configuration Error: ">> \o err.msg,
                     <<"Configuration Error: ">> \o err.msg)

\* The errors the handlers return.
AppErrors ==
    {NotFound, NoChangesToUpdate}
    \cup {ValidationErrorOf(e) : e \in {"customer_state: length", "price: range"}}
    \cup {AlreadyExists(AlreadyExistsMsg(n)) :
             n \in {"Customer", "Seller", "Order", "Product"}}
    \cup {DatabaseError(e) : e \in {UniqueViolation, ForeignKeyViolation,
                                     PoolTimedOut}}
    \cup {MigrationError("VersionMissing")}
    \cup {OpenFailure(e) : e \in {"No such file or directory (os error 2)",
                                  "Permission denied (os error 13)"}}

\* Two failed requests are answered.
into_response_twice ==
    /\ last = NoCall
    /\ \E e1, e2 \in AppErrors :
           last' = [op |-> "into_response", id |-> Absent, dto |-> <<e1, e2>>,
                    fault |-> NoFault,
                    result |-> <<into_response(e1), into_response(e2)>>,
                    calls |-> 0, pre |-> db]
    /\ UNCHANGED <<db, nops, ingestVars>>

NextErrors ==
    \/ into_response_twice
    \/ Respond /\ UNCHANGED nops

SpecErrors == Init /\ [][NextErrors]_vars

\* C20: a DatabaseError or ConfigError is answered with a status 500 and a
\* message that does not depend on the error's detail, so two errors of the
\* same kind with different details get the same answer; NotFound,
\* NoChangesToUpdate, ValidationError and AlreadyExists get a rejection of
\* their own (status 4xx).  The answer to a ConfigError carries the detail.
C20_FailuresAreGeneric ==
    last.op = "into_response" =>
        LET e == last.dto
            r == [i \in 1..2 |-> [status |-> last.result[i].status,
                                  body |-> last.result[i].body]]
        IN /\ \A i \in 1..2 :
                  /\ e[i].kind \in {"DatabaseError", "ConfigError"} =>
                         r[i].status = 500
                  /\ e[i].kind \in {"NotFound", "NoChangesToUpdate",
                                    "ValidationError", "AlreadyExists"} =>
                         r[i].status \in 400..499
           /\ (e[1].kind = e[2].kind
               /\ e[1].kind \in {"DatabaseError", "ConfigError"}) =>
                  r[1] = r[2]

-----------------------------------------------------------------------------
(* The operations of all four services together, for a bounded number of    *)
(* requests (routes.rs:18-54).  The lists are requested without filter and  *)
(* with the default pagination.  Left out are the reads of an order's       *)
(* products, payments and reviews, which run one SELECT each.               *)

DefaultPagination == [page |-> None, page_size |-> None]

UnfilteredLocationQuery ==
    [city |-> Absent, state |-> Absent, page |-> None, page_size |-> None]

UnfilteredOrderQuery == [status |-> Absent, page |-> None, page_size |-> None]

UnfilteredProductQuery ==
    [category_name |-> Absent, page |-> None, page_size |-> None]

get_customers_unfiltered ==
    /\ last = NoCall
    /\ \E fault \in IoFaults :
           \E out \in get_customers(db.customers, UnfilteredLocationQuery, fault) :
               Serve("customers", "get_customers", Absent,
                     UnfilteredLocationQuery, fault, out)

get_sellers_unfiltered ==
    /\ last = NoCall
    /\ \E fault \in IoFaults :
           \E out \in get_sellers(db.sellers, UnfilteredLocationQuery, fault) :
               Serve("sellers", "get_sellers", Absent,
                     UnfilteredLocationQuery, fault, out)

get_orders_unfiltered ==
    /\ last = NoCall
    /\ \E fault \in IoFaults :
           \E out \in get_orders(db.orders, UnfilteredOrderQuery, fault) :
               Serve("orders", "get_orders", Absent,
                     UnfilteredOrderQuery, fault, out)

get_customer_orders_unfiltered ==
    /\ last = NoCall
    /\ \E id \in Ids, fault \in IoFaults :
           \E out \in get_orders_by_customer(db.orders, id,
                                             DefaultPagination, fault) :
               Serve("orders", "get_orders_by_customer", id,
                     DefaultPagination, fault, out)

get_products_unfiltered ==
    /\ last = NoCall
    /\ \E fault \in IoFaults :
           \E out \in get_products(db.products, UnfilteredProductQuery, fault) :
               Serve("products", "get_products", Absent,
                     UnfilteredProductQuery, fault, out)

NextAll ==
    \/ Counted(create_customer_request(CreateCustomerDtosAB))
    \/ Counted(create_seller_handler)
    \/ Counted(create_order_handler)
    \/ Counted(create_product_handler)
    \/ Counted(add_item_to_order_by_id_handler)
    \/ Counted(update_customer_city_handler)
    \/ Counted(delete_customer_handler)
    \/ Counted(get_customer_by_id_handler)
    \/ Counted(get_seller_by_id_handler)
    \/ Counted(get_order_by_id_handler)
    \/ Counted(get_product_by_id_handler)
    \/ Counted(get_customers_unfiltered)
    \/ Counted(get_sellers_unfiltered)
    \/ Counted(get_orders_unfiltered)
    \/ Counted(get_customer_orders_unfiltered)
    \/ Counted(get_products_unfiltered)
    \/ Respond /\ UNCHANGED nops

SpecAll == Init /\ [][NextAll]_vars

\* The tables without update and delete, with the operation that inserts
\* into each and the column that holds the identifier the table is keyed by.
InsertOnly ==
    [sellers |-> [op |-> "create_seller", key |-> "seller_id"],
     orders |-> [op |-> "create_order", key |-> "order_id"],
     products |-> [op |-> "create_product", key |-> "product_id"],
     order_items |-> [op |-> "add_item_to_order", key |-> "order_id"]]

\* A stored row carries the identifier it is stored under.
C21_CallerIds ==
    /\ \A tbl \in DOMAIN InsertOnly, i \in Ids :
           db[tbl][i].some => db[tbl][i].val[InsertOnly[tbl].key] = i
    /\ \A i \in Ids : db.customers[i].some => db.customers[i].val.customer_id = i

\* A step leaves the stored rows of the insert-only tables as they are, and
\* a row that appears was inserted by the table's create operation, under
\* the identifier and with the field values of the request.
C21_Step ==
    \A tbl \in DOMAIN InsertOnly, i \in Ids :
        /\ db[tbl][i].some => db'[tbl][i] = db[tbl][i]
        /\ (~db[tbl][i].some /\ db'[tbl][i].some) =>
               /\ last'.op = InsertOnly[tbl].op
               /\ last'.id = i
               /\ last'.result = Ok(db'[tbl][i].val)
               /\ \A f \in DOMAIN last'.dto :
                      db'[tbl][i].val[f] = last'.dto[f]

\* C21: only Customer rows are modified or removed: whatever operations
\* run, a Seller, Order, Product or OrderItem row once created stays stored
\* with the field values of the DTO that created it, and every stored row
\* carries the identifier the caller supplied.
C21_OnlyCustomersChange == [](C21_CallerIds) /\ [][C21_Step]_vars

\* A customer has been deleted while a seller created before is stored.
C21_Witness ==
    /\ last.op = "delete_customer"
    /\ last.result = Ok(Unit)
    /\ ~db.customers[last.id].some
    /\ \E i \in Ids : db.sellers[i].some /\ db.sellers[i].val.seller_city = "c3"

\* C22: AlreadyExists comes from the four create operations only.
\* add_item_to_order, which also inserts, answers every failure of its
\* insert, a duplicate item (unique violation) and a missing order, product
\* or seller (foreign-key violation) included, with DatabaseError carrying
\* the storage error, never with AlreadyExists or NotFound; get, list,
\* update and delete never answer AlreadyExists.
C22_AlreadyExistsOnlyFromCreate ==
    /\ last.op # "none" =>
           (last.result.kind = "AlreadyExists" => last.op \in CreateOps)
    /\ (last.op = "add_item_to_order" /\ Validate(last.dto)) =>
           /\ last.result.kind \in {"Ok", "DatabaseError"}
           /\ last.fault # NoFault => last.result = DatabaseError(last.fault)
           /\ (last.fault = NoFault /\ last.pre.order_items[last.id].some) =>
                  /\ last.result = DatabaseError(UniqueViolation)
                  /\ db = last.pre

\* A second item under the identifier of a stored one.
C22_Witness ==
    /\ last.op = "add_item_to_order"
    /\ Validate(last.dto)
    /\ last.fault = NoFault
    /\ last.pre.order_items[last.id].some
    /\ last.pre.order_items[last.id].val.price # last.dto.price
    /\ last.result = DatabaseError(UniqueViolation)

-----------------------------------------------------------------------------
(* load_data_from_csv_handler (handlers.rs:187-233): three ingestion runs,  *)
(* each awaited before the next starts.  A run is load_csv_data as modelled *)
(* step by step above, here computed over the records of its source.        *)

MaxSource == 2

\* The closures of handlers.rs:198-201, 210-213 and 221-224.
ProcessRecord(file, d, record, fault) ==
    LET o == CASE file = "customers" -> create_customer(d.customers, record, fault)
               [] file = "sellers" -> create_seller(d.sellers, record, fault)
               [] file = "orders" -> create_order(d.orders, record, fault)
    IN [result |-> IF o.result.kind = "Ok" THEN Ok(Unit) ELSE o.result,
        db |-> [d EXCEPT ![file] = o.table]]

\* handlers.rs:253-270: the loop over the records that are left.
RECURSIVE RunLoop(_, _, _, _, _)
RunLoop(file, d, source, successes, errors) ==
    IF source = <<>>
    THEN [result |-> Ok(<<successes, errors>>), db |-> d]
    ELSE IF ~source[1].parsed
    THEN RunLoop(file, d, Tail(source), successes, errors + 1)
    ELSE LET o == ProcessRecord(file, d, source[1].dto, source[1].fault)
         IN IF o.result.kind = "Ok"
            THEN RunLoop(file, o.db, Tail(source), successes + 1, errors)
            ELSE RunLoop(file, o.db, Tail(source), successes, errors + 1)

load_csv_data(file, d, can, source) ==
    IF ~can THEN [result |-> ConfigError("Failed to open CSV file"), db |-> d]
    ELSE RunLoop(file, d, source, 0, 0)

\* The three files in the order the handler reads them.
Files == <<"customers", "sellers", "orders">>

\* What a file can hold: records that do not parse and records that do, each
\* with what the store does when it is dispatched (a storage failure is
\* drawn for the records of the customers file, whose run comes first).
FileRecords(file) ==
    {[parsed |-> FALSE]} \cup
    {[parsed |-> TRUE, dto |-> dto, fault |-> fault] :
        dto \in CASE file = "customers" -> CreateCustomerDtos
                  [] file = "sellers" ->
                        [seller_id : Ids, seller_zip_code_prefix : {"z1"},
                         seller_city : {"c1"}, seller_state : {"s1"}]
                  [] file = "orders" ->
                        [order_id : Ids, customer_id : {1},
                         order_status : {"delivered"},
                         order_purchase_timestamp : {"t1"}],
        fault \in IF file = "customers" THEN IoFaults ELSE {NoFault}}

FileSources(file) ==
    UNION {[1..n -> FileRecords(file)] : n \in 0..MaxSource}

\* The handler's frame after a run that returned (s, e): the totals of
\* handlers.rs:203-204 that overwrite instead of adding.
Tallied_overwrites(frame, s, e) ==
    [frame EXCEPT !.total_success = s, !.total_error = e,
                  !.runs = Append(@, <<s, e>>)]

\* handlers.rs:203-204, 215-216, 226-227
Tallied(frame, s, e) ==
    [frame EXCEPT !.total_success = @ + s, !.total_error = @ + e,
                  !.runs = Append(@, <<s, e>>)]

\* handlers.rs:190-193: the request arrives
load_data_start ==
    /\ last = NoCall
    /\ last' = [op |-> "load_data_from_csv", opened |-> <<>>, runs |-> <<>>,
                total_success |-> 0, total_error |-> 0, result |-> None,
                pre |-> db]
    /\ UNCHANGED <<db, nops, ingestVars>>

\* One load_csv_data(..).await? and the two additions after it; after the
\* third, the handler returns the totals (handlers.rs:229-233).
load_data_run(k) ==
    /\ last.op = "load_data_from_csv"
    /\ ~last.result.some
    /\ Len(last.opened) = k - 1
    /\ \E can \in BOOLEAN, source \in FileSources(Files[k]) :
          LET out == load_csv_data(Files[k], db, can, source)
              frame == [last EXCEPT !.opened = Append(@, Files[k])]
          IN /\ db' = out.db
             /\ IF out.result.kind # "Ok"
                THEN last' = [frame EXCEPT !.result = Some(out.result)]
                ELSE LET t == Tallied(frame, out.result.value[1],
                                      out.result.value[2])
                     IN last' = IF k < Len(Files) THEN t
                                ELSE [t EXCEPT !.result =
                                        Some(Ok([message |-> "Data load processed",
                                                 success_count |-> t.total_success,
                                                 error_count |-> t.total_error]))]
    /\ UNCHANGED <<nops, ingestVars>>

load_customers == load_data_run(1)

load_sellers == load_data_run(2)

load_orders == load_data_run(3)

InitLoad ==
    /\ db \in SeedDbs
    /\ last = NoCall
    /\ nops = 0
    /\ IngestIdle

NextLoad ==
    \/ load_data_start
    \/ load_customers
    \/ load_sellers
    \/ load_orders

SpecLoad == InitLoad /\ [][NextLoad]_vars

LoadReturned == last.op = "load_data_from_csv" /\ last.result.some

\* The rows of a file's table that were not there when the request arrived.
NewRows(file) == {i \in Ids : db[file][i].some /\ ~last.pre[file][i].some}

RECURSIVE SumOf(_, _)
SumOf(runs, c) == IF runs = <<>> THEN 0 ELSE runs[1][c] + SumOf(Tail(runs), c)

\* The files are opened in the order customers, sellers, orders, each after
\* the run before it has returned its counts; the rows a finished run
\* inserted are stored, and nothing that was stored before is lost.  A
\* handler that has returned Ok has run all three and reports the sums of
\* their counts; one that has returned an error returns the ConfigError of
\* the file opened last, without counts, and the tables of the later files
\* are as they were.
C23_Frame ==
    last.op = "load_data_from_csv" =>
        LET k == Len(last.opened)
            done == Len(last.runs)
        IN /\ last.opened = SubSeq(Files, 1, k)
           /\ done = IF last.result.some /\ last.result.val.kind # "Ok"
                     THEN k - 1 ELSE k
           /\ \A j \in 1..done :
                  Cardinality(NewRows(Files[j])) = last.runs[j][1]
           /\ \A j \in (done + 1)..Len(Files) : db[Files[j]] = last.pre[Files[j]]
           /\ \A f \in DOMAIN db, i \in Ids :
                  last.pre[f][i].some => db[f][i] = last.pre[f][i]
           /\ last.total_success = SumOf(last.runs, 1)
           /\ last.total_error = SumOf(last.runs, 2)
           /\ last.result.some =>
                  IF last.result.val.kind = "Ok"
                  THEN /\ done = Len(Files)
                       /\ last.result.val.value.success_count = SumOf(last.runs, 1)
                       /\ last.result.val.value.error_count = SumOf(last.runs, 2)
                  ELSE /\ last.result.val = ConfigError("Failed to open CSV file")
                       /\ k \in 1..Len(Files)

\* C23: load_data_from_csv_handler runs the customers, sellers and orders
\* ingestion in that order, each after the one before has finished, and on
\* success reports the sums of the three runs' counts; when the k-th file
\* cannot be opened it returns ConfigError without counts, takes no further
\* step, and the rows the earlier runs inserted stay stored.
C23_RunsInOrder == [](C23_Frame) /\ [][~LoadReturned]_vars

\* The orders file cannot be opened after the customers run (one record
\* stored, one rejected) and the sellers run (one record stored).
C23_Witness ==
    /\ LoadReturned
    /\ last.result.val.kind = "ConfigError"
    /\ last.opened = Files
    /\ last.runs = <<<<1, 1>>, <<1, 0>>>>
    /\ Cardinality(NewRows("customers")) = 1
    /\ Cardinality(NewRows("sellers")) = 1

-----------------------------------------------------------------------------
(* Two runs of load_csv_data over the customers file at the same time     *)
(* (handlers.rs:237-273): two requests to the load endpoint, each served  *)
(* by its own task, share the file and the store and nothing else.  Both  *)
(* have opened the file; `last` holds the file's records and the frame of *)
(* each run.  A run touches the store once per record, in the INSERT of   *)
(* create_customer, so a step of a run is one statement of its loop up to *)
(* and including that INSERT.                                             *)

Runs == {1, 2}

\* The records of the file: one that does not parse, one that fails
\* validation, and a valid one for every identifier.
TwoRunRecords ==
    {[parsed |-> FALSE]} \cup
    {[parsed |-> TRUE, dto |-> dto] :
        dto \in {d \in CreateCustomerDtos :
                    d.customer_state = "s1" \/ d.customer_id = 1}}

TwoRunSources == UNION {[1..n -> TwoRunRecords] : n \in 0..MaxSource}

\* handlers.rs:248-249: the frame of a run that has opened the file
RunFrame ==
    [pc |-> "loop", pos |-> 0, success_count |-> 0, error_count |-> 0,
     outcomes |-> <<>>, ret |-> None]

InitTwoRuns ==
    /\ db \in {d \in SeedDbs : \A i \in Ids : Stored(d, i) => i = 1}
    /\ \E source \in TwoRunSources :
          last = [op |-> "two_runs", source |-> source, pre |-> db,
                  run |-> [r \in Runs |-> RunFrame]]
    /\ nops = 0
    /\ IngestIdle

\* handlers.rs:254-260: the next record does not parse
run_parse_error(r) ==
    LET f == last.run[r]
    IN /\ last.op = "two_runs"
       /\ f.pc = "loop"
       /\ f.pos < Len(last.source)
       /\ ~last.source[f.pos + 1].parsed
       /\ last' = [last EXCEPT !.run[r] =
                      [f EXCEPT !.pos = @ + 1, !.error_count = @ + 1,
                                !.outcomes = Append(@, "ParseError")]]
       /\ UNCHANGED <<db, nops, ingestVars>>

\* handlers.rs:254-263: the next record parses and process_fn is called
run_dispatch(r) ==
    LET f == last.run[r]
    IN /\ last.op = "two_runs"
       /\ f.pc = "loop"
       /\ f.pos < Len(last.source)
       /\ last.source[f.pos + 1].parsed
       /\ last' = [last EXCEPT !.run[r] = [f EXCEPT !.pc = "await"]]
       /\ UNCHANGED <<db, nops, ingestVars>>

\* handlers.rs:263-269: process_fn runs against the store as it is now,
\* returns, and its result is tallied
run_dispatch_return(r) ==
    LET f == last.run[r]
    IN /\ last.op = "two_runs"
       /\ f.pc = "await"
       /\ \E fault \in IoFaults :
             LET out == process_fn(db.customers, last.source[f.pos + 1].dto, fault)
                 ok == out.result.kind = "Ok"
             IN /\ db' = [db EXCEPT !.customers = out.table]
                /\ last' = [last EXCEPT !.run[r] =
                      [f EXCEPT !.pc = "loop", !.pos = @ + 1,
                                !.success_count = IF ok THEN @ + 1 ELSE @,
                                !.error_count = IF ok THEN @ ELSE @ + 1,
                                !.outcomes = Append(@, out.result.kind)]]
       /\ UNCHANGED <<nops, ingestVars>>

\* handlers.rs:272: the file is exhausted
run_end(r) ==
    LET f == last.run[r]
    IN /\ last.op = "two_runs"
       /\ f.pc = "loop"
       /\ f.pos = Len(last.source)
       /\ last' = [last EXCEPT !.run[r] =
                      [f EXCEPT !.pc = "done",
                                !.ret = Some(Ok(<<f.success_count, f.error_count>>))]]
       /\ UNCHANGED <<db, nops, ingestVars>>

NextTwoRuns ==
    \E r \in Runs :
        \/ run_parse_error(r)
        \/ run_dispatch(r)
        \/ run_dispatch_return(r)
        \/ run_end(r)

SpecTwoRuns == InitTwoRuns /\ [][NextTwoRuns]_vars

-----------------------------------------------------------------------------
(* Properties of two concurrent runs, checked under SpecTwoRuns *)

BothDone == last.op = "two_runs" /\ \A r \in Runs : last.run[r].pc = "done"

\* The dispatches that have returned: (run, position) pairs.
Dispatches ==
    {rp \in Runs \X (1..Len(last.source)) :
        /\ rp[2] <= Len(last.run[rp[1]].outcomes)
        /\ last.source[rp[2]].parsed}

DispatchesOf(id) ==
    {rp \in Dispatches : last.source[rp[2]].dto.customer_id = id}

Outcome(rp) == last.run[rp[1]].outcomes[rp[2]]

\* The identifiers that can be inserted: not stored before the runs, and
\* carried by a record that passes validation and whose INSERT the store
\* has executed (a call that fails with a storage failure executes none).
Insertable ==
    {id \in Ids :
        /\ ~Stored(last.pre, id)
        /\ \E rp \in DispatchesOf(id) :
              Outcome(rp) \notin {"ValidationError", "DatabaseError"}}

\* C24: when two ingestion runs over the same source run concurrently
\* against the same store, in every interleaving each identifier is
\* inserted at most once: of the dispatches of an insertable identifier
\* exactly one succeeds and every other one whose INSERT is executed is an
\* AlreadyExists counted as an error (for a valid identifier that occurs
\* once in the source and meets no storage failure: one of the two
\* dispatches succeeds, the other is the error); the two success counts add
\* up to the number of distinct insertable identifiers and the four counts
\* to twice the number of records.
C24_InsertedAtMostOnce ==
    last.op = "two_runs" =>
        /\ \A id \in Ids :
              LET won == {rp \in DispatchesOf(id) : Outcome(rp) = "Ok"}
              IN /\ Cardinality(won) <= 1
                 /\ Cardinality(won) = IF id \in Insertable THEN 1 ELSE 0
                 /\ \A rp \in DispatchesOf(id) \ won :
                       Outcome(rp) \in {"AlreadyExists", "ValidationError",
                                        "DatabaseError"}
                 /\ \A rp \in DispatchesOf(id) :
                       (~Stored(last.pre, id) /\ won = {}) =>
                           Outcome(rp) # "AlreadyExists"
        /\ \A r \in Runs :
              LET f == last.run[r]
              IN /\ f.success_count = Count(f.outcomes, {"Ok"})
                 /\ f.success_count + f.error_count = Len(f.outcomes)
        /\ last.run[1].success_count + last.run[2].success_count
              = Cardinality(Insertable)
        /\ BothDone =>
              /\ \A p \in 1..Len(last.source) :
                    LET rec == last.source[p]
                        a == last.run[1].outcomes[p]
                        b == last.run[2].outcomes[p]
                    IN (/\ rec.parsed
                        /\ Validate(rec.dto)
                        /\ ~Stored(last.pre, rec.dto.customer_id)
                        /\ \A q \in 1..Len(last.source) :
                              (q # p /\ last.source[q].parsed) =>
                                  last.source[q].dto.customer_id
                                      # rec.dto.customer_id
                        /\ "DatabaseError" \notin {a, b})
                       => {a, b} = {"Ok", "AlreadyExists"}
              /\ last.run[1].success_count + last.run[1].error_count
                 + last.run[2].success_count + last.run[2].error_count
                    = 2 * Len(last.source)
              /\ \A r \in Runs :
                    last.run[r].ret = Some(Ok(<<last.run[r].success_count,
                                                last.run[r].error_count>>))

\* The second run overtakes the first between the two records of the file:
\* each run inserts one of the two identifiers and is refused the other.
C24_Witness ==
    /\ BothDone
    /\ Len(last.source) = 2
    /\ last.run[1].outcomes = <<"Ok", "AlreadyExists">>
    /\ last.run[2].outcomes = <<"AlreadyExists", "Ok">>
    /\ Cardinality(Insertable) = 2

-----------------------------------------------------------------------------
(* find_all as the two statements it is (repositories.rs:63-111, 400-446): *)
(* the COUNT query and the page query are sent to the pool one after the   *)
(* other, outside any transaction, and each `.await` lets the requests of  *)
(* other clients run.  `last` holds the list request in flight: its query, *)
(* the row of the count, and the store each statement was executed in.     *)

\* repositories.rs:70-84
PgCustomerRepository_find_all_count(t, filter, fault) ==
    IF fault # NoFault THEN SqlErr(fault)
    ELSE Ok(Cardinality({r \in Rows(t) :
                            /\ IsNullOrEq(filter.city, r.customer_city)
                            /\ IsNullOrEq(filter.state, r.customer_state)}))

\* repositories.rs:86-108
PgCustomerRepository_find_all_page(t, filter, pagination, fault) ==
    LET n == normalize(pagination)
        match == {r \in Rows(t) : /\ IsNullOrEq(filter.city, r.customer_city)
                                  /\ IsNullOrEq(filter.state, r.customer_state)}
        orders == OrderByDesc(match,
                      [r \in match |-> Collate[r.customer_zip_code_prefix]])
    IN IF fault # NoFault THEN {SqlErr(fault)}
       ELSE {Ok(LimitOffset(o, n[1], n[2])) : o \in orders}

\* repositories.rs:407-419
PgOrderRepository_find_all_count(t, filter, fault) ==
    IF fault # NoFault THEN SqlErr(fault)
    ELSE Ok(Cardinality({r \in Rows(t) :
                            IsNullOrEq(filter.status, r.order_status)}))

\* repositories.rs:421-443
PgOrderRepository_find_all_page(t, filter, pagination, fault) ==
    LET n == normalize(pagination)
        match == {r \in Rows(t) : IsNullOrEq(filter.status, r.order_status)}
        orders == OrderByDesc(match,
                      [r \in match |-> Collate[r.order_purchase_timestamp]])
    IN IF fault # NoFault THEN {SqlErr(fault)}
       ELSE {Ok(LimitOffset(o, n[1], n[2])) : o \in orders}

\* The list request after its count statement: `?` returns a failure at once.
Counting(op, query, count_row) ==
    [op |-> op, id |-> Absent, dto |-> query, count_row |-> count_row,
     counted |-> db, read |-> db,
     result |-> IF count_row.kind = "Ok" THEN None
                ELSE Some(FromSqlx(count_row.err))]

\* The list request after its page statement: Ok((rows, total_count)) goes
\* through the service into the envelope.
Fetched(frame, page) ==
    LET n == normalize(QueryPagination(frame.dto))
    IN [frame EXCEPT
          !.read = db,
          !.result = Some(IF page.kind # "Ok" THEN FromSqlx(page.err)
                          ELSE Ok(PaginatedResponse_new(page.value,
                                      frame.count_row.value, n[3], n[4])))]

\* The list requests: with and without a filter, the first page of the
\* default size and the second page of one row.
RacePages == {p \in PaginationInputs : (p.page = Some(2)) = (p.page_size = Some(1))
                                       /\ p.page \in {None, Some(2)}}

RaceLocationQueries ==
    {q \in LocationSearchQueries :
        q.state = Absent /\ q.city # "" /\ QueryPagination(q) \in RacePages}

RaceOrderQueries ==
    {q \in OrderSearchQueries :
        q.status # "" /\ QueryPagination(q) \in RacePages}

InFlight == last # NoCall /\ ~last.result.some

get_customers_count ==
    /\ last = NoCall
    /\ \E query \in RaceLocationQueries, fault \in IoFaults :
          last' = Counting("get_customers", query,
                      PgCustomerRepository_find_all_count(db.customers,
                          LocationSearchQuery_filter(query), fault))
    /\ UNCHANGED <<db, nops, ingestVars>>

get_customers_page ==
    /\ last.op = "get_customers"
    /\ InFlight
    /\ \E fault \in IoFaults :
          \E page \in PgCustomerRepository_find_all_page(db.customers,
                          LocationSearchQuery_filter(last.dto),
                          QueryPagination(last.dto), fault) :
              last' = Fetched(last, page)
    /\ UNCHANGED <<db, nops, ingestVars>>

get_orders_count ==
    /\ last = NoCall
    /\ \E query \in RaceOrderQueries, fault \in IoFaults :
          last' = Counting("get_orders", query,
                      PgOrderRepository_find_all_count(db.orders,
                          OrderSearchQuery_filter(query), fault))
    /\ UNCHANGED <<db, nops, ingestVars>>

get_orders_page ==
    /\ last.op = "get_orders"
    /\ InFlight
    /\ \E fault \in IoFaults :
          \E page \in PgOrderRepository_find_all_page(db.orders,
                          OrderSearchQuery_filter(last.dto),
                          QueryPagination(last.dto), fault) :
              last' = Fetched(last, page)
    /\ UNCHANGED <<db, nops, ingestVars>>

\* The requests of other clients that are served while the list request
\* waits for its page: they change the store and leave the frame alone.
Meanwhile(table, out) ==
    /\ InFlight
    /\ db' = [db EXCEPT ![table] = out.table]
    /\ UNCHANGED <<last, ingestVars>>

create_customer_meanwhile ==
    \E dto \in CreateCustomerDtos :
        Meanwhile("customers", create_customer(db.customers, dto, NoFault))

update_customer_meanwhile ==
    \E id \in Ids, dto \in {u \in UpdateCustomerDtos :
                                u.customer_unique_id = Absent
                                /\ u.customer_zip_code_prefix = Absent
                                /\ u.customer_state = Absent} :
        Meanwhile("customers", update_customer(db.customers, id, dto, NoFault))

delete_customer_meanwhile ==
    \E id \in Ids :
        Meanwhile("customers", delete_customer(db.customers, id, NoFault))

create_order_meanwhile ==
    \E dto \in CreateOrderDtos :
        Meanwhile("orders", create_order(db.orders, dto, NoFault))

\* The stores a list request can find: some customers, or some orders.
RaceDbs ==
    SeedDbs \cup
    {[EmptyDb EXCEPT !.orders =
          [i \in Ids |-> IF i \in S
                         THEN Some([order_id |-> i, customer_id |-> 1,
                                    order_status |-> "delivered",
                                    order_purchase_timestamp |-> "t1"])
                         ELSE None]] : S \in SUBSET Ids}

InitRace ==
    /\ db \in RaceDbs
    /\ last = NoCall
    /\ nops = 0
    /\ IngestIdle

NextRace ==
    \/ get_customers_count
    \/ get_customers_page
    \/ get_orders_count
    \/ get_orders_page
    \/ Counted(create_customer_meanwhile)
    \/ Counted(update_customer_meanwhile)
    \/ Counted(delete_customer_meanwhile)
    \/ Counted(create_order_meanwhile)

SpecRace == InitRace /\ [][NextRace]_vars

-----------------------------------------------------------------------------
(* Properties of a list request among other requests, checked under SpecRace *)

ListReturned ==
    /\ last.op \in {"get_customers", "get_orders"}
    /\ last.result.some
    /\ last.result.val.kind = "Ok"

\* C25: in every list response total_records is the number of rows that
\* match the filter in the store state the page's items were read from,
\* also when a create, update or delete of another request is served
\* between the count query and the page query of find_all.
C25_OneStoreState ==
    ListReturned =>
        last.result.val.value.total_records
            = Cardinality(Matching(last.read, last.op, Absent, last.dto))

\* What does hold: total_records is the number of matching rows in the store
\* state of the count query, and the items are rows that match in the store
\* state of the page query; the two states are the same when no write was
\* served in between.
C25_EachQueryItsOwnState ==
    ListReturned =>
        LET resp == last.result.val.value
        IN /\ resp.total_records
                = Cardinality(Matching(last.counted, last.op, Absent, last.dto))
           /\ Range(resp.items) \subseteq
                  Matching(last.read, last.op, Absent, last.dto)
           /\ last.counted = last.read =>
                  resp.total_records
                      = Cardinality(Matching(last.read, last.op, Absent, last.dto))

\* A customer is deleted between the two queries: the response announces
\* more rows than the store held when its items were read.
C25_Witness ==
    /\ ListReturned
    /\ last.op = "get_customers"
    /\ last.counted # last.read
    /\ last.result.val.value.total_records
          > Cardinality(Matching(last.read, last.op, Absent, last.dto))

====
